---- MODULE Spec2Model ----
(***************************************************************************)
(* Model of src/main.ts (SpeechToTextPlugin): the streaming audio-chunking *)
(* and transcript-stitching pipeline.                                      *)
(*                                                                         *)
(* JavaScript runs every piece of code between two awaits atomically, so   *)
(* each action below is one such piece: a command handler, or the part of  *)
(* an async function that runs from one await to the next.                 *)
(*                                                                         *)
(* Representation:                                                         *)
(*   - a string is a sequence of one-character strings;                    *)
(*   - a sample is a record [id, v, p]: id numbers the samples in push     *)
(*     order (0 is a zero of a fresh Float32Array that was never pushed),  *)
(*     v is its amplitude in units of 1/AmpUnit, p the processor whose     *)
(*     callback pushed it;                                                 *)
(*   - a numeric setting is a record [finite, val]: finite is              *)
(*     Number.isFinite of it, val its value, in thousandths (Milli) for    *)
(*     counts and milliseconds and in units of 1/AmpUnit for an amplitude. *)
(***************************************************************************)
EXTENDS Integers, Sequences, FiniteSets, TLC

\* ------------------------------------------------------------------ bounds
MaxBlocks == 2      \* audio blocks delivered in one behaviour
BlockLen  == 2      \* samples per audio block
MaxCalls  == 2      \* transcription calls dispatched in one behaviour
MaxStarts == 1      \* startTranscription calls that pass the guard
MaxWords   == 3     \* words of a text given to cleanTranscript
MaxTextLen == 4     \* characters of a text given to dedupeConsecutiveWords
MaxRepeats == 3     \* largest maxConsecutiveWordRepeats setting
LongLen    == 120   \* characters of a long transcript

\* --------------------------------------------------------------- constants
targetSampleRate == 16000
MaxOverlapWords  == 6
TailLimit        == 200
PeakFactor       == 4
defaultMaxBufferedChunks == 12
defaultMaxConsecutiveWordRepeats == 2
defaultSilenceThreshold == 15       \* 0.0015 in units of 1/AmpUnit
defaultChunkMs == 4000
NegScale == 32768                   \* 0x8000
PosScale == 32767                   \* 0x7fff
MinChunkMs     == 500
AmpUnit == 10000                    \* amplitude 1.0
Milli   == 1000                     \* the number 1 as a setting value

NULL == 0                           \* null of a field holding an object id
NoOffset == -1                      \* null of baseOffset

\* ----------------------------------------------------------------- helpers
SetMin(S) == CHOOSE x \in S : \A y \in S : x <= y
SetMax(S) == CHOOSE x \in S : \A y \in S : x >= y
Min2(a, b) == IF a <= b THEN a ELSE b
Max2(a, b) == IF a >= b THEN a ELSE b

\* Math.round(n / d) for d > 0: floor(n/d + 1/2)
MathRound(n, d) == (2 * n + d) \div (2 * d)

Num(v) == [finite |-> TRUE, val |-> v]
NaN    == [finite |-> FALSE, val |-> 0]

\* ------------------------------------------------------------------ strings
Whitespace == {" ", "\t", "\n"}
LowerLetters == <<"a", "b", "c", "d", "e", "f", "g", "h", "i", "j", "k", "l", "m",
                  "n", "o", "p", "q", "r", "s", "t", "u", "v", "w", "x", "y", "z">>
UpperLetters == <<"A", "B", "C", "D", "E", "F", "G", "H", "I", "J", "K", "L", "M",
                  "N", "O", "P", "Q", "R", "S", "T", "U", "V", "W", "X", "Y", "Z">>
Digits == {"0", "1", "2", "3", "4", "5", "6", "7", "8", "9"}

IsWs(c) == c \in Whitespace

\* /^\s+$/.test(token)
IsWsToken(t) == Len(t) > 0 /\ \A i \in 1..Len(t) : IsWs(t[i])

\* String.prototype.toLowerCase, one character
LowerChar(c) ==
    IF \E i \in 1..Len(UpperLetters) : UpperLetters[i] = c
    THEN LowerLetters[CHOOSE i \in 1..Len(UpperLetters) : UpperLetters[i] = c]
    ELSE c

toLowerCase(s) == [i \in 1..Len(s) |-> LowerChar(s[i])]

\* the characters /[^a-z0-9À-ſ]+/gi leaves in a lower-cased token
IsWordChar(c) ==
    \/ \E i \in 1..Len(LowerLetters) : LowerLetters[i] = c
    \/ c \in Digits

trimStart(s) ==
    LET idx == {i \in 1..Len(s) : ~IsWs(s[i])}
    IN  IF idx = {} THEN <<>> ELSE SubSeq(s, SetMin(idx), Len(s))

trim(s) ==
    LET idx == {i \in 1..Len(s) : ~IsWs(s[i])}
    IN  IF idx = {} THEN <<>> ELSE SubSeq(s, SetMin(idx), SetMax(idx))

RECURSIVE Concat(_)
Concat(ss) == IF ss = <<>> THEN <<>> ELSE Head(ss) \o Concat(Tail(ss))

\* Array.prototype.join
RECURSIVE join(_, _)
join(ws, sep) ==
    IF ws = <<>> THEN <<>>
    ELSE IF Len(ws) = 1 THEN ws[1]
    ELSE ws[1] \o sep \o join(Tail(ws), sep)

\* the maximal runs of whitespace and of non-whitespace of s, from index i
RECURSIVE RunsFrom(_, _)
RunsFrom(s, i) ==
    IF i > Len(s) THEN <<>>
    ELSE LET cls  == IsWs(s[i])
             stop == {j \in i..Len(s) : IsWs(s[j]) # cls}
             e    == IF stop = {} THEN Len(s) ELSE SetMin(stop) - 1
         IN  <<SubSeq(s, i, e)>> \o RunsFrom(s, e + 1)

\* text.split(/(\s+)/): words and separators alternate; a separator at either
\* end of the text is preceded / followed by an empty word
SplitCapture(s) ==
    IF s = <<>> THEN << <<>> >>
    ELSE (IF IsWs(s[1]) THEN << <<>> >> ELSE <<>>)
         \o RunsFrom(s, 1)
         \o (IF IsWs(s[Len(s)]) THEN << <<>> >> ELSE <<>>)

\* text.split(/\s+/)
SplitWs(s) == SelectSeq(SplitCapture(s), LAMBDA t : ~IsWsToken(t))

\* text.replace(/\s+/g, ' ')
CollapseWs(s) ==
    LET runs == RunsFrom(s, 1)
    IN  Concat([i \in 1..Len(runs) |-> IF IsWsToken(runs[i]) THEN <<" ">> ELSE runs[i]])

\* normalize of dedupeConsecutiveWords
normalize(token) == SelectSeq(toLowerCase(token), IsWordChar)

\* the for loop of dedupeConsecutiveWords counting the repeats anew after a
\* token it has dropped
RECURSIVE DedupeLoopResetOnDrop(_, _, _, _, _)
DedupeLoopResetOnDrop(tokens, i, lastWord, repeatCount, maxRepeats) ==
    IF i > Len(tokens) THEN <<>>
    ELSE LET token == tokens[i] IN
         IF IsWsToken(token)
         THEN <<token>> \o DedupeLoopResetOnDrop(tokens, i + 1, lastWord, repeatCount, maxRepeats)
         ELSE LET normalized == normalize(token) IN
              IF normalized # <<>> /\ normalized = lastWord
              THEN IF repeatCount + 1 >= maxRepeats
                   THEN DedupeLoopResetOnDrop(tokens, i + 1, lastWord, 0, maxRepeats)
                   ELSE <<token>> \o DedupeLoopResetOnDrop(tokens, i + 1, lastWord,
                                                           repeatCount + 1, maxRepeats)
              ELSE <<token>> \o DedupeLoopResetOnDrop(tokens, i + 1, normalized, 0, maxRepeats)

\* the for loop of dedupeConsecutiveWords, from token i: the tokens pushed to output
RECURSIVE DedupeLoop(_, _, _, _, _)
DedupeLoop(tokens, i, lastWord, repeatCount, maxRepeats) ==
    IF i > Len(tokens) THEN <<>>
    ELSE LET token == tokens[i] IN
         IF IsWsToken(token)
         THEN <<token>> \o DedupeLoop(tokens, i + 1, lastWord, repeatCount, maxRepeats)
         ELSE LET normalized == normalize(token) IN
              IF normalized # <<>> /\ normalized = lastWord
              THEN IF repeatCount + 1 >= maxRepeats
                   THEN DedupeLoop(tokens, i + 1, lastWord, repeatCount + 1, maxRepeats)
                   ELSE <<token>> \o DedupeLoop(tokens, i + 1, lastWord, repeatCount + 1, maxRepeats)
              ELSE <<token>> \o DedupeLoop(tokens, i + 1, normalized, 0, maxRepeats)

\* dedupeConsecutiveWords dropping a repeat one occurrence later
dedupeConsecutiveWordsOffByOne(text, maxRepeats) ==
    IF text = <<>> THEN text
    ELSE trim(CollapseWs(Concat(DedupeLoop(SplitCapture(text), 1, <<>>, 0, maxRepeats + 1))))

\* dedupeConsecutiveWords returning the joined tokens as they are
dedupeConsecutiveWordsUntidy(text, maxRepeats) ==
    IF text = <<>> THEN text
    ELSE Concat(DedupeLoop(SplitCapture(text), 1, <<>>, 0, maxRepeats))

dedupeConsecutiveWords(text, maxRepeats) ==
    IF text = <<>> THEN text
    ELSE trim(CollapseWs(Concat(DedupeLoop(SplitCapture(text), 1, <<>>, 0, maxRepeats))))

\* cleanTranscript without the comparison with the tail
cleanTranscriptNoOverlap(incoming, previousTail, maxRepeats) ==
    IF incoming = <<>> THEN incoming
    ELSE dedupeConsecutiveWords(trimStart(incoming), maxRepeats)

\* cleanTranscript taking the smallest overlap that matches
cleanTranscriptSmallest(incoming, previousTail, maxRepeats) ==
    IF incoming = <<>> THEN incoming
    ELSE LET normalizedIncoming == trimStart(incoming) IN
         IF previousTail = <<>>
         THEN dedupeConsecutiveWords(normalizedIncoming, maxRepeats)
         ELSE LET prevWords  == SplitWs(trim(previousTail))
                  nextWords  == SplitWs(normalizedIncoming)
                  maxOverlap == Min2(MaxOverlapWords, Min2(Len(prevWords), Len(nextWords)))
                  matching   == {k \in 1..maxOverlap :
                                    toLowerCase(join(SubSeq(prevWords, Len(prevWords) - k + 1,
                                                            Len(prevWords)), <<" ">>))
                                    = toLowerCase(join(SubSeq(nextWords, 1, k), <<" ">>))}
              IN  IF matching # {}
                  THEN dedupeConsecutiveWords(
                           join(SubSeq(nextWords, SetMin(matching) + 1, Len(nextWords)), <<" ">>),
                           maxRepeats)
                  ELSE dedupeConsecutiveWords(normalizedIncoming, maxRepeats)

cleanTranscript(incoming, previousTail, maxRepeats) ==
    IF incoming = <<>> THEN incoming
    ELSE LET normalizedIncoming == trimStart(incoming) IN
         IF previousTail = <<>>
         THEN dedupeConsecutiveWords(normalizedIncoming, maxRepeats)
         ELSE LET prevWords  == SplitWs(trim(previousTail))
                  nextWords  == SplitWs(normalizedIncoming)
                  maxOverlap == Min2(MaxOverlapWords, Min2(Len(prevWords), Len(nextWords)))
                  matching   == {k \in 1..maxOverlap :
                                    toLowerCase(join(SubSeq(prevWords, Len(prevWords) - k + 1,
                                                            Len(prevWords)), <<" ">>))
                                    = toLowerCase(join(SubSeq(nextWords, 1, k), <<" ">>))}
              IN  IF matching # {}
                  THEN dedupeConsecutiveWords(
                           join(SubSeq(nextWords, SetMax(matching) + 1, Len(nextWords)), <<" ">>),
                           maxRepeats)
                  ELSE dedupeConsecutiveWords(normalizedIncoming, maxRepeats)

\* updateTail without the slice
updateTailWhole(previousTail, appended) == previousTail \o appended

\* combined.slice(-200)
updateTail(previousTail, appended) ==
    LET combined == previousTail \o appended
    IN  SubSeq(combined, Max2(1, Len(combined) - TailLimit + 1), Len(combined))

\* ------------------------------------------------------------- sample queue
ZeroSample == [id |-> 0, v |-> 0, p |-> NULL]

\* the while loop of takeSamples: what is copied to out, and the buffers left
RECURSIVE TakeLoop(_, _)
TakeLoop(bufs, needed) ==
    IF needed <= 0 \/ bufs = <<>> THEN [out |-> <<>>, bufs |-> bufs]
    ELSE LET buffer == Head(bufs) IN
         IF Len(buffer) <= needed
         THEN LET r == TakeLoop(Tail(bufs), needed - Len(buffer))
              IN  [out |-> buffer \o r.out, bufs |-> r.bufs]
         ELSE [out  |-> SubSeq(buffer, 1, needed),
               bufs |-> <<SubSeq(buffer, needed + 1, Len(buffer))>> \o Tail(bufs)]

\* takeSamples leaving whole the block in which the chunk ends
RECURSIVE TakeLoopNoSplit(_, _)
TakeLoopNoSplit(bufs, needed) ==
    IF needed <= 0 \/ bufs = <<>> THEN [out |-> <<>>, bufs |-> bufs]
    ELSE LET buffer == Head(bufs) IN
         IF Len(buffer) <= needed
         THEN LET r == TakeLoopNoSplit(Tail(bufs), needed - Len(buffer))
              IN  [out |-> buffer \o r.out, bufs |-> r.bufs]
         ELSE [out |-> SubSeq(buffer, 1, needed), bufs |-> bufs]

takeSamplesNoSplit(bufs, collected, count) ==
    LET r == TakeLoopNoSplit(bufs, count)
    IN  [out              |-> r.out \o [i \in 1..(count - Len(r.out)) |-> ZeroSample],
         sampleBuffers    |-> r.bufs,
         samplesCollected |-> collected - count]

\* takeSamples copying the samples without removing them from the queue
takeSamplesNoShift(bufs, collected, count) ==
    LET r == TakeLoop(bufs, count)
    IN  [out              |-> r.out \o [i \in 1..(count - Len(r.out)) |-> ZeroSample],
         sampleBuffers    |-> bufs,
         samplesCollected |-> collected - count]

\* takeSamples(count) on a queue: out always has count entries, those the
\* queue did not provide being the zeros the Float32Array was created with
takeSamples(bufs, collected, count) ==
    LET r == TakeLoop(bufs, count)
    IN  [out              |-> r.out \o [i \in 1..(count - Len(r.out)) |-> ZeroSample],
         sampleBuffers    |-> r.bufs,
         samplesCollected |-> collected - count]

\* the while loop of discardSamples: the buffers left
RECURSIVE DiscardLoop(_, _)
DiscardLoop(bufs, remaining) ==
    IF remaining <= 0 \/ bufs = <<>> THEN bufs
    ELSE LET buffer == Head(bufs) IN
         IF Len(buffer) <= remaining
         THEN DiscardLoop(Tail(bufs), remaining - Len(buffer))
         ELSE <<SubSeq(buffer, remaining + 1, Len(buffer))>> \o Tail(bufs)

\* discardSamples dropping the whole of the block in which the count ends
RECURSIVE DiscardLoopWholeBlocks(_, _)
DiscardLoopWholeBlocks(bufs, remaining) ==
    IF remaining <= 0 \/ bufs = <<>> THEN bufs
    ELSE DiscardLoopWholeBlocks(Tail(bufs), remaining - Len(Head(bufs)))

discardSamplesWholeBlocks(bufs, collected, count) ==
    [sampleBuffers    |-> DiscardLoopWholeBlocks(bufs, count),
     samplesCollected |-> Max2(0, collected - count)]

\* discardSamples dropping the newest samples instead of the oldest
discardSamplesNewest(bufs, collected, count) ==
    LET all == Concat(bufs)
    IN  [sampleBuffers    |-> IF Len(all) - count <= 0 THEN <<>>
                              ELSE <<SubSeq(all, 1, Len(all) - count)>>,
         samplesCollected |-> Max2(0, collected - count)]

\* discardSamples without its update of samplesCollected
discardSamplesKeepCount(bufs, collected, count) ==
    [sampleBuffers    |-> DiscardLoop(bufs, count),
     samplesCollected |-> collected]

discardSamples(bufs, collected, count) ==
    [sampleBuffers    |-> DiscardLoop(bufs, count),
     samplesCollected |-> Max2(0, collected - count)]

trimBacklog(bufs, collected, samplesPerChunk, maxChunks) ==
    LET maxSamples == samplesPerChunk * maxChunks
    IN  IF collected <= maxSamples
        THEN [sampleBuffers |-> bufs, samplesCollected |-> collected]
        ELSE discardSamples(bufs, collected, collected - maxSamples)

RECURSIVE SumSquares(_)
SumSquares(samples) ==
    IF samples = <<>> THEN 0
    ELSE Head(samples).v * Head(samples).v + SumSquares(Tail(samples))

Abs(x) == IF x < 0 THEN -x ELSE x

\* isMostlySilence without its test of the peak
isMostlySilenceRmsOnly(samples, threshold) ==
    IF Len(samples) = 0 THEN TRUE
    ELSE SumSquares(samples) < threshold * threshold * Len(samples)

\* isMostlySilence without its test of the RMS
isMostlySilencePeakOnly(samples, threshold) ==
    IF Len(samples) = 0 THEN TRUE
    ELSE LET peak == SetMax({0} \cup {Abs(samples[i].v) : i \in 1..Len(samples)})
         IN  peak < threshold * PeakFactor

\* rms < threshold is compared as sumSquares / length < threshold^2, both
\* sides being non-negative
isMostlySilence(samples, threshold) ==
    IF Len(samples) = 0 THEN TRUE
    ELSE LET peak == SetMax({0} \cup {Abs(samples[i].v) : i \in 1..Len(samples)})
         IN  /\ SumSquares(samples) < threshold * threshold * Len(samples)
             /\ peak < threshold * PeakFactor

\* ------------------------------------------------------------ WAV encoding
\* a Float32 sample of encodeWav: NaN, or the amplitude v in units of 1/AmpUnit
Sample(v) == [nan |-> FALSE, v |-> v]
NaNSample == [nan |-> TRUE, v |-> 0]

\* Math.max(-1, Math.min(1, s)): NaN when s is NaN
clampSample(s) == IF s.nan THEN s ELSE Sample(Max2(-AmpUnit, Min2(AmpUnit, s.v)))

\* s < 0 ? s * 0x8000 : s * 0x7fff, as a number of 1/AmpUnit; NaN < 0 is false
\* and NaN * 0x7fff is NaN
scaleSample(s) ==
    IF s.nan THEN s
    ELSE IF s.v < 0 THEN Sample(s.v * NegScale) ELSE Sample(s.v * PosScale)

\* ToInt16 with NaN converted to the least value
ToInt16NaNAsMin(x) ==
    IF x.nan THEN -NegScale
    ELSE LET int == IF x.v < 0 THEN -((-x.v) \div AmpUnit) ELSE x.v \div AmpUnit
         IN  ((int + NegScale) % (2 * NegScale)) - NegScale

\* the conversion of a number stored into an Int16Array (ToInt16): NaN gives 0,
\* every other number is truncated toward zero, then taken modulo 2^16 into
\* -32768 .. 32767
ToInt16(x) ==
    IF x.nan THEN 0
    ELSE LET int == IF x.v < 0 THEN -((-x.v) \div AmpUnit) ELSE x.v \div AmpUnit
         IN  ((int + NegScale) % (2 * NegScale)) - NegScale

\* view.setUint16(offset, v, true) and view.setInt16(offset, v, true): the two
\* bytes of v modulo 2^16, the low one first
LE16(v) == LET u == v % 65536 IN <<u % 256, u \div 256>>

\* view.setUint32(offset, v, true): the four bytes of v, the low one first
\* (v is below 2^31 here)
LE32(v) == <<v % 256, (v \div 256) % 256, (v \div 65536) % 256, (v \div 16777216) % 256>>

\* writeString: the character codes of 'RIFF', 'WAVE', 'fmt ' and 'data'
Tag_RIFF == <<82, 73, 70, 70>>
Tag_WAVE == <<87, 65, 86, 69>>
Tag_fmt  == <<102, 109, 116, 32>>
Tag_data == <<100, 97, 116, 97>>

\* the Int16Array pcm of encodeWav
PcmOf(samples) == [i \in 1..Len(samples) |-> ToInt16(scaleSample(clampSample(samples[i])))]

\* encodeWav writing the number of samples as the size of the data
encodeWavCountAsSize(samples, sampleRate) ==
    LET pcm == PcmOf(samples)
    IN  Tag_RIFF \o LE32(36 + Len(pcm) * 2) \o Tag_WAVE
        \o Tag_fmt \o LE32(16) \o LE16(1) \o LE16(1)
        \o LE32(sampleRate) \o LE32(sampleRate * 2) \o LE16(2) \o LE16(16)
        \o Tag_data \o LE32(Len(pcm))
        \o Concat([i \in 1..Len(pcm) |-> LE16(pcm[i])])

\* encodeWav: the bytes of the buffer
encodeWav(samples, sampleRate) ==
    LET pcm == PcmOf(samples)
    IN  Tag_RIFF \o LE32(36 + Len(pcm) * 2) \o Tag_WAVE
        \o Tag_fmt \o LE32(16) \o LE16(1) \o LE16(1)
        \o LE32(sampleRate) \o LE32(sampleRate * 2) \o LE16(2) \o LE16(16)
        \o Tag_data \o LE32(Len(pcm) * 2)
        \o Concat([i \in 1..Len(pcm) |-> LE16(pcm[i])])

\* ---------------------------------------------------------------- settings
\* applyTuningSettings: the three tuned fields from the stored settings
applyTuningSettings(st) ==
    [silenceRmsThreshold |->
         IF st.silenceThreshold.finite
         THEN Max2(0, st.silenceThreshold.val) ELSE defaultSilenceThreshold,
     maxBufferedChunks |->
         IF st.maxBufferedChunks.finite /\ st.maxBufferedChunks.val > 0
         THEN MathRound(st.maxBufferedChunks.val, Milli) ELSE defaultMaxBufferedChunks,
     maxConsecutiveWordRepeats |->
         IF st.maxConsecutiveWordRepeats.finite /\ st.maxConsecutiveWordRepeats.val >= Milli
         THEN MathRound(st.maxConsecutiveWordRepeats.val, Milli)
         ELSE defaultMaxConsecutiveWordRepeats]

\* Math.max(1, Math.round((targetSampleRate * chunkMs) / 1000)), chunkMs finite.
\* targetSampleRate is a multiple of 1000: the quotient is taken first, which
\* keeps the product of a chunk time of seconds within 32 bits
SamplesPerChunk(chunkMs) ==
    Max2(1, MathRound((targetSampleRate \div 1000) * chunkMs.val, Milli))

\* -------------------------------------------------------------------- state
VARIABLES
    \* fields of SpeechToTextPlugin
    isTranscribing, currentStream, audioContext, audioProcessor, audioSource,
    sampleBuffers, samplesCollected, lastTranscriptTail, pendingControllers,
    settings, silenceRmsThreshold, maxBufferedChunks, maxConsecutiveWordRepeats,
    \* the runtime
    starts,       \* startTranscription calls awaiting getUserMedia
    attached,     \* processors connected with onaudioprocess set
    closures,     \* per processor: baseOffset and samplesPerChunk of startPCMRecorder
    calls,        \* onaudioprocess callbacks suspended in sendChunk
    doc,          \* the text of the active editor
    editorCursor, \* the offset of the editor's cursor
    saving,       \* onChange handlers of the settings tab awaiting saveSettings
    \* counters
    nextStart, nextBlock, nextCall,
    \* history
    chunkLog,     \* the chunks extracted by the drain loop, in order
    insertLog,    \* the insertions applied to the document, in order
    trimLog,      \* the latest trimBacklog of an arriving block
    lastOp        \* the handler that ran last

vars == <<isTranscribing, currentStream, audioContext, audioProcessor, audioSource,
          sampleBuffers, samplesCollected, lastTranscriptTail, pendingControllers,
          settings, silenceRmsThreshold, maxBufferedChunks, maxConsecutiveWordRepeats,
          starts, attached, closures, calls, doc, editorCursor, saving,
          nextStart, nextBlock, nextCall, chunkLog, insertLog, trimLog, lastOp>>

\* the program's own state, without counters and history
progVars == <<isTranscribing, currentStream, audioContext, audioProcessor, audioSource,
              sampleBuffers, samplesCollected, lastTranscriptTail, pendingControllers,
              settings, silenceRmsThreshold, maxBufferedChunks, maxConsecutiveWordRepeats,
              starts, attached, closures, calls, doc, editorCursor, saving>>

\* the state as one record, for the operators that model the code
Cur ==
    [isTranscribing |-> isTranscribing, currentStream |-> currentStream,
     audioContext |-> audioContext, audioProcessor |-> audioProcessor,
     audioSource |-> audioSource, sampleBuffers |-> sampleBuffers,
     samplesCollected |-> samplesCollected, lastTranscriptTail |-> lastTranscriptTail,
     pendingControllers |-> pendingControllers, settings |-> settings,
     silenceRmsThreshold |-> silenceRmsThreshold, maxBufferedChunks |-> maxBufferedChunks,
     maxConsecutiveWordRepeats |-> maxConsecutiveWordRepeats,
     starts |-> starts, attached |-> attached, closures |-> closures, calls |-> calls,
     doc |-> doc, editorCursor |-> editorCursor, saving |-> saving,
     nextStart |-> nextStart, nextBlock |-> nextBlock, nextCall |-> nextCall,
     chunkLog |-> chunkLog, insertLog |-> insertLog, trimLog |-> trimLog, lastOp |-> lastOp]

Commit(S) ==
    /\ isTranscribing' = S.isTranscribing
    /\ currentStream' = S.currentStream
    /\ audioContext' = S.audioContext
    /\ audioProcessor' = S.audioProcessor
    /\ audioSource' = S.audioSource
    /\ sampleBuffers' = S.sampleBuffers
    /\ samplesCollected' = S.samplesCollected
    /\ lastTranscriptTail' = S.lastTranscriptTail
    /\ pendingControllers' = S.pendingControllers
    /\ settings' = S.settings
    /\ silenceRmsThreshold' = S.silenceRmsThreshold
    /\ maxBufferedChunks' = S.maxBufferedChunks
    /\ maxConsecutiveWordRepeats' = S.maxConsecutiveWordRepeats
    /\ starts' = S.starts
    /\ attached' = S.attached
    /\ closures' = S.closures
    /\ calls' = S.calls
    /\ doc' = S.doc
    /\ editorCursor' = S.editorCursor
    /\ saving' = S.saving
    /\ nextStart' = S.nextStart
    /\ nextBlock' = S.nextBlock
    /\ nextCall' = S.nextCall
    /\ chunkLog' = S.chunkLog
    /\ insertLog' = S.insertLog
    /\ trimLog' = S.trimLog
    /\ lastOp' = S.lastOp

\* the handler that ran last: its name, the processor it belongs to (of a
\* callback) and, of start and stop, isTranscribing at the call
Op(name, p, was) == [op |-> name, p |-> p, was |-> was]

\* the same for a callback resumed by sendChunk returning transcript, with
\* whether the workspace had an active editor and the tail it merged against
Received(p, transcript, hasEditor, tail) ==
    [op |-> "transcript", p |-> p, was |-> FALSE,
     transcript |-> transcript, hasEditor |-> hasEditor, tail |-> tail]

\* the same for startTranscription resumed by getUserMedia, with its outcome
Acquired(s, outcome) == [op |-> "acquired", p |-> s, was |-> FALSE, outcome |-> outcome]

Range(f) == {f[i] : i \in DOMAIN f}

\* --------------------------------------------------------------- operations
\* stopTranscription without its isTranscribing guard
stopTranscriptionUnguarded(S) ==
    [S EXCEPT
        !.attached = @ \ {S.audioProcessor},
        !.audioProcessor = NULL,
        !.audioSource = NULL,
        !.audioContext = NULL,
        !.currentStream = NULL,
        !.sampleBuffers = <<>>,
        !.samplesCollected = 0,
        !.lastTranscriptTail = <<>>,
        !.calls = {c \in S.calls :
                      ~(c.phase = "fetch" /\ c.id \in Range(S.pendingControllers))},
        !.pendingControllers = <<>>,
        !.isTranscribing = FALSE]

\* stopTranscription. controller.abort() rejects the fetch it belongs to; the
\* callback awaiting it resumes in its catch as a microtask, that is before any
\* other handler runs: there stopTranscription returns at once (isTranscribing
\* is false) and the loop ends (samplesCollected is 0), so the callback ends
\* without effect and is dropped here.
stopTranscription(S) ==
    IF ~S.isTranscribing THEN S
    ELSE [S EXCEPT
            !.attached = @ \ {S.audioProcessor},
            !.audioProcessor = NULL,
            !.audioSource = NULL,
            !.audioContext = NULL,
            !.currentStream = NULL,
            !.sampleBuffers = <<>>,
            !.samplesCollected = 0,
            !.lastTranscriptTail = <<>>,
            !.calls = {c \in S.calls :
                          ~(c.phase = "fetch" /\ c.id \in Range(S.pendingControllers))},
            !.pendingControllers = <<>>,
            !.isTranscribing = FALSE]

\* startTranscription without its isTranscribing guard
startTranscriptionUnguarded(S) ==
    [S EXCEPT
        !.isTranscribing = TRUE,
        !.lastTranscriptTail = <<>>,
        !.starts = @ \cup {S.nextStart},
        !.nextStart = @ + 1]

\* startTranscription up to its await of getUserMedia
startTranscription(S) ==
    IF S.isTranscribing THEN S
    ELSE [S EXCEPT
            !.isTranscribing = TRUE,
            !.lastTranscriptTail = <<>>,
            !.starts = @ \cup {S.nextStart},
            !.nextStart = @ + 1]

\* startPCMRecorder for the stream of start s; the processor it creates is
\* numbered s
startPCMRecorder(S, s) ==
    LET S1 == IF S.audioContext # NULL THEN stopTranscription(S) ELSE S
    IN  [S1 EXCEPT
            !.audioContext = s,
            !.audioSource = s,
            !.audioProcessor = s,
            !.closures = @ @@ (s :> [baseOffset |-> NoOffset,
                                      samplesPerChunk |-> SamplesPerChunk(S1.settings.chunkMs)]),
            !.attached = @ \cup {s}]

\* startTranscription from the return of getUserMedia, without its test of the
\* audio tracks of the stream
startTranscriptionResumeNoTrackTest(S, s, outcome) ==
    LET S0 == [S EXCEPT !.starts = @ \ {s}]
    IN  IF outcome \in {"ok", "noTracks"}
        THEN startPCMRecorder([S0 EXCEPT !.currentStream = s], s)
        ELSE stopTranscription(S0)

\* startTranscription from the return of getUserMedia: outcome is "ok", "noTracks"
\* (a stream without audio track) or "error" (getUserMedia rejected)
startTranscriptionResume(S, s, outcome) ==
    LET S0 == [S EXCEPT !.starts = @ \ {s}]
    IN  IF outcome = "ok"
        THEN startPCMRecorder([S0 EXCEPT !.currentStream = s], s)
        ELSE stopTranscription(S0)

\* the while loop of onaudioprocess ending at a silent chunk instead of
\* continuing with the next one
RECURSIVE DrainStopAtSilence(_, _)
DrainStopAtSilence(S, p) ==
    LET samplesPerChunk == S.closures[p].samplesPerChunk IN
    IF S.samplesCollected < samplesPerChunk THEN S
    ELSE LET t  == takeSamples(S.sampleBuffers, S.samplesCollected, samplesPerChunk)
             silent == isMostlySilence(t.out, S.silenceRmsThreshold)
             S1 == [S EXCEPT
                      !.sampleBuffers = t.sampleBuffers,
                      !.samplesCollected = t.samplesCollected,
                      !.chunkLog = Append(@, [by |-> p, samples |-> t.out, silent |-> silent])]
             chunk == Len(S1.chunkLog)
         IN  IF silent THEN S1
             ELSE IF S1.settings.endpointUrl = ""
             THEN DrainStopAtSilence(stopTranscription(S1), p)
             ELSE [S1 EXCEPT
                      !.pendingControllers = Append(@, S1.nextCall),
                      !.calls = @ \cup {[id |-> S1.nextCall, p |-> p, chunk |-> chunk,
                                         phase |-> "fetch"]},
                      !.nextCall = @ + 1]

\* the while loop of onaudioprocess with a sendChunk that does not test the
\* endpoint URL
RECURSIVE DrainNoEndpointTest(_, _)
DrainNoEndpointTest(S, p) ==
    LET samplesPerChunk == S.closures[p].samplesPerChunk IN
    IF S.samplesCollected < samplesPerChunk THEN S
    ELSE LET t  == takeSamples(S.sampleBuffers, S.samplesCollected, samplesPerChunk)
             silent == isMostlySilence(t.out, S.silenceRmsThreshold)
             S1 == [S EXCEPT
                      !.sampleBuffers = t.sampleBuffers,
                      !.samplesCollected = t.samplesCollected,
                      !.chunkLog = Append(@, [by |-> p, samples |-> t.out, silent |-> silent])]
             chunk == Len(S1.chunkLog)
         IN  IF silent THEN DrainNoEndpointTest(S1, p)
             ELSE [S1 EXCEPT
                      !.pendingControllers = Append(@, S1.nextCall),
                      !.calls = @ \cup {[id |-> S1.nextCall, p |-> p, chunk |-> chunk,
                                         phase |-> "fetch"]},
                      !.nextCall = @ + 1]

\* the while loop of onaudioprocess extracting every chunk of the queue before
\* it sends any, and sending the chunks last first
RECURSIVE DrainSendLastFirst(_, _)
DrainSendLastFirst(S, p) ==
    LET samplesPerChunk == S.closures[p].samplesPerChunk IN
    IF S.samplesCollected < samplesPerChunk THEN S
    ELSE LET t  == takeSamples(S.sampleBuffers, S.samplesCollected, samplesPerChunk)
             silent == isMostlySilence(t.out, S.silenceRmsThreshold)
             S1 == [S EXCEPT
                      !.sampleBuffers = t.sampleBuffers,
                      !.samplesCollected = t.samplesCollected,
                      !.chunkLog = Append(@, [by |-> p, samples |-> t.out, silent |-> silent])]
             chunk == Len(S1.chunkLog)
         IN  IF silent THEN DrainSendLastFirst(S1, p)
             ELSE IF S1.settings.endpointUrl = ""
             THEN DrainSendLastFirst(stopTranscription(S1), p)
             ELSE LET S2 == DrainSendLastFirst(S1, p)
                  IN  [S2 EXCEPT
                         !.pendingControllers = Append(@, S2.nextCall),
                         !.calls = @ \cup {[id |-> S2.nextCall, p |-> p, chunk |-> chunk,
                                            phase |-> "fetch"]},
                         !.nextCall = @ + 1]

\* the while loop of onaudioprocess in a callback of processor p, from its
\* condition to the await of fetch in sendChunk or to the end of the callback
RECURSIVE Drain(_, _)
Drain(S, p) ==
    LET samplesPerChunk == S.closures[p].samplesPerChunk IN
    IF S.samplesCollected < samplesPerChunk THEN S
    ELSE LET t  == takeSamples(S.sampleBuffers, S.samplesCollected, samplesPerChunk)
             silent == isMostlySilence(t.out, S.silenceRmsThreshold)
             S1 == [S EXCEPT
                      !.sampleBuffers = t.sampleBuffers,
                      !.samplesCollected = t.samplesCollected,
                      !.chunkLog = Append(@, [by |-> p, samples |-> t.out, silent |-> silent])]
             chunk == Len(S1.chunkLog)
         IN  IF silent THEN Drain(S1, p)
             ELSE IF S1.settings.endpointUrl = ""
             THEN \* sendChunk throws before any await: the catch
                  Drain(stopTranscription(S1), p)
             ELSE [S1 EXCEPT
                      !.pendingControllers = Append(@, S1.nextCall),
                      !.calls = @ \cup {[id |-> S1.nextCall, p |-> p, chunk |-> chunk,
                                         phase |-> "fetch"]},
                      !.nextCall = @ + 1]

\* onaudioprocess holding an arriving block back while a call of its processor
\* is outstanding
onaudioprocessBlocking(S, p, block) ==
    IF \E c \in S.calls : c.p = p THEN [S EXCEPT !.nextBlock = @ + 1]
    ELSE
    LET samplesPerChunk == S.closures[p].samplesPerChunk
        pushed  == Append(S.sampleBuffers, block)
        trimmed == trimBacklog(pushed, S.samplesCollected + Len(block),
                               samplesPerChunk, S.maxBufferedChunks)
    IN  Drain([S EXCEPT
                 !.sampleBuffers = trimmed.sampleBuffers,
                 !.samplesCollected = trimmed.samplesCollected,
                 !.nextBlock = @ + 1,
                 !.trimLog = [maxSamples |-> samplesPerChunk * S.maxBufferedChunks,
                              before |-> Concat(pushed),
                              after |-> Concat(trimmed.sampleBuffers),
                              count |-> trimmed.samplesCollected]], p)

\* onaudioprocess of processor p for one block, up to its first await
onaudioprocess(S, p, block) ==
    LET samplesPerChunk == S.closures[p].samplesPerChunk
        pushed  == Append(S.sampleBuffers, block)
        trimmed == trimBacklog(pushed, S.samplesCollected + Len(block),
                               samplesPerChunk, S.maxBufferedChunks)
    IN  Drain([S EXCEPT
                 !.sampleBuffers = trimmed.sampleBuffers,
                 !.samplesCollected = trimmed.samplesCollected,
                 !.nextBlock = @ + 1,
                 !.trimLog = [maxSamples |-> samplesPerChunk * S.maxBufferedChunks,
                              before |-> Concat(pushed),
                              after |-> Concat(trimmed.sampleBuffers),
                              count |-> trimmed.samplesCollected]], p)

\* sendChunk from the return of fetch: the controller leaves the pending list,
\* then the body is read (response.text() or response.json())
sendChunkResponse(S, c, ok) ==
    [S EXCEPT
        !.pendingControllers = SelectSeq(@, LAMBDA x : x # c.id),
        !.calls = (@ \ {c}) \cup {[c EXCEPT !.phase = IF ok THEN "body" ELSE "errorBody"]}]

\* the catch of onaudioprocess, then its loop; the call of c has thrown
onaudioprocessCatch(S, c) ==
    Drain(stopTranscription([S EXCEPT !.calls = @ \ {c}]), c.p)

\* lines 330-332 reading the editor's cursor at every insertion
establishBaseOffsetAlways(baseOffset, cursorOffset) == cursorOffset

\* lines 330-332: baseOffset is read from the editor's cursor while it is null
establishBaseOffset(baseOffset, cursorOffset) ==
    IF baseOffset = NoOffset THEN cursorOffset ELSE baseOffset

\* lines 334-342 without the test of the character before the cursor
prependSpaceAlways(insertText, baseOffset, text) ==
    IF baseOffset > 0 /\ insertText # <<>> /\ ~IsWs(insertText[1])
    THEN <<" ">> \o insertText ELSE insertText

\* lines 334-342: the text to insert at baseOffset into the editor's text.
\* prevChar is the range from baseOffset - 1 to baseOffset, both clamped to the
\* text
prependSpace(insertText, baseOffset, text) ==
    LET at       == Min2(baseOffset, Len(text))
        prevChar == IF baseOffset > 0 /\ at > 0 /\ at = baseOffset
                    THEN <<text[at]>> ELSE <<>>
    IN  IF /\ baseOffset > 0
           /\ insertText # <<>>
           /\ ~IsWs(insertText[1])
           /\ prevChar # <<>>
           /\ ~IsWs(prevChar[1])
        THEN <<" ">> \o insertText ELSE insertText

\* onaudioprocess from the return of sendChunk, without its test of an empty
\* merged text
onaudioprocessResumeNoSkip(S, c, transcript, hasEditor) ==
    LET S0 == [S EXCEPT !.calls = @ \ {c}]
        p  == c.p
    IN  IF transcript = <<>> \/ ~hasEditor THEN Drain(S0, p)
        ELSE
        LET cleaned == cleanTranscript(transcript, S0.lastTranscriptTail,
                                       S0.maxConsecutiveWordRepeats)
            baseOffset == establishBaseOffset(S0.closures[p].baseOffset, S0.editorCursor)
            at         == Min2(baseOffset, Len(S0.doc))
            insertText == prependSpace(cleaned, baseOffset, S0.doc)
            newOffset  == baseOffset + Len(insertText)
        IN  Drain([S0 EXCEPT
                     !.doc = SubSeq(@, 1, at) \o insertText \o SubSeq(@, at + 1, Len(@)),
                     !.closures[p].baseOffset = newOffset,
                     !.lastTranscriptTail = updateTail(@, insertText),
                     !.editorCursor = Min2(newOffset, Len(S0.doc) + Len(insertText)),
                     !.insertLog = Append(@, [p |-> p, chunk |-> c.chunk,
                                              offset |-> at, text |-> insertText,
                                              live |-> p \in S0.attached,
                                              current |-> S0.audioProcessor,
                                              fresh |-> S0.lastTranscriptTail = <<>>])], p)

\* onaudioprocess from the return of sendChunk with a transcript, to its next
\* await or its end; hasEditor: the workspace has an active editor
onaudioprocessResume(S, c, transcript, hasEditor) ==
    LET S0 == [S EXCEPT !.calls = @ \ {c}]
        p  == c.p
    IN  IF transcript = <<>> \/ ~hasEditor THEN Drain(S0, p)
        ELSE
        LET cleaned == cleanTranscript(transcript, S0.lastTranscriptTail,
                                       S0.maxConsecutiveWordRepeats)
        IN  IF cleaned = <<>> THEN Drain(S0, p)
            ELSE
            LET baseOffset == establishBaseOffset(S0.closures[p].baseOffset, S0.editorCursor)
                at         == Min2(baseOffset, Len(S0.doc))
                insertText == prependSpace(cleaned, baseOffset, S0.doc)
                newOffset  == baseOffset + Len(insertText)
            IN  Drain([S0 EXCEPT
                         !.doc = SubSeq(@, 1, at) \o insertText \o SubSeq(@, at + 1, Len(@)),
                         !.closures[p].baseOffset = newOffset,
                         !.lastTranscriptTail = updateTail(@, insertText),
                         !.editorCursor = Min2(newOffset, Len(S0.doc) + Len(insertText)),
                         !.insertLog = Append(@, [p |-> p, chunk |-> c.chunk,
                                                  offset |-> at, text |-> insertText,
                                                  live |-> p \in S0.attached,
                                                  current |-> S0.audioProcessor,
                                                  fresh |-> S0.lastTranscriptTail = <<>>])], p)

\* the onChange handlers of the four tuning fields of the settings tab, up to
\* their await of saveSettings: num is Number(value) of the text typed
onChange(S, field, num) ==
    LET v == CASE field = "chunkMs" ->
                      IF num.finite /\ num.val > MinChunkMs * Milli
                      THEN num ELSE Num(defaultChunkMs * Milli)
               [] field = "silenceThreshold" ->
                      IF num.finite /\ num.val >= 0
                      THEN num ELSE Num(defaultSilenceThreshold)
               [] field = "maxBufferedChunks" ->
                      IF num.finite /\ num.val > 0
                      THEN Num(MathRound(num.val, Milli) * Milli)
                      ELSE Num(defaultMaxBufferedChunks * Milli)
               [] field = "maxConsecutiveWordRepeats" ->
                      IF num.finite /\ num.val >= Milli
                      THEN Num(MathRound(num.val, Milli) * Milli)
                      ELSE Num(defaultMaxConsecutiveWordRepeats * Milli)
    IN  [S EXCEPT !.settings[field] = v, !.saving = @ + 1]

\* an onChange handler from the return of saveSettings: applyTuningSettings
onChangeResume(S) ==
    LET tuned == applyTuningSettings(S.settings)
    IN  [S EXCEPT
            !.saving = @ - 1,
            !.silenceRmsThreshold = tuned.silenceRmsThreshold,
            !.maxBufferedChunks = tuned.maxBufferedChunks,
            !.maxConsecutiveWordRepeats = tuned.maxConsecutiveWordRepeats]

\* ------------------------------------------------------------------- inputs
EndpointUrls  == {"", "http://stt"}
ChunkMsValues == {Num(63), Num(188)}          \* 0.063 ms and 0.188 ms: 1 and 3 samples
BufferedChunksValues == {Num(1000), Num(2000)}
Amplitudes    == {0, AmpUnit}                  \* a block of zeros, a full-scale block
Transcripts   == {<<>>, <<"a", " ", "b">>, <<"b", " ", "c">>}
Outcomes      == {"ok", "noTracks", "error"}
InitDoc       == <<"x">>

\* the limits of a specification: blocks delivered, calls dispatched, starts
\* passing the guard, and the transcripts the service returns
Limits(blocks, callsMax, startsMax) ==
    [blocks |-> blocks, calls |-> callsMax, starts |-> startsMax,
     transcripts |-> Transcripts]

\* --------------------------------------------------------------------- Init
\* the state after onload: the settings are loaded and applyTuningSettings ran;
\* the active editor holds one of docs, its cursor anywhere
InitOf(stored, docs) ==
    /\ settings \in stored
    /\ silenceRmsThreshold = applyTuningSettings(settings).silenceRmsThreshold
    /\ maxBufferedChunks = applyTuningSettings(settings).maxBufferedChunks
    /\ maxConsecutiveWordRepeats = applyTuningSettings(settings).maxConsecutiveWordRepeats
    /\ isTranscribing = FALSE
    /\ currentStream = NULL
    /\ audioContext = NULL
    /\ audioProcessor = NULL
    /\ audioSource = NULL
    /\ sampleBuffers = <<>>
    /\ samplesCollected = 0
    /\ lastTranscriptTail = <<>>
    /\ pendingControllers = <<>>
    /\ starts = {}
    /\ attached = {}
    /\ closures = <<>>
    /\ calls = {}
    /\ doc \in docs
    /\ editorCursor \in 0..Len(doc)
    /\ saving = 0
    /\ nextStart = 1
    /\ nextBlock = 1
    /\ nextCall = 1
    /\ chunkLog = <<>>
    /\ insertLog = <<>>
    /\ trimLog = [maxSamples |-> 0, before |-> <<>>, after |-> <<>>, count |-> 0]
    /\ lastOp = Op("onload", NULL, FALSE)

Init ==
    InitOf([endpointUrl : EndpointUrls,
            chunkMs : ChunkMsValues,
            silenceThreshold : {Num(defaultSilenceThreshold)},
            maxBufferedChunks : BufferedChunksValues,
            maxConsecutiveWordRepeats : {Num(2 * Milli)}],
           {InitDoc}) /\ editorCursor = Len(InitDoc)

\* ------------------------------------------------------------------ actions
\* the source selector's callback calls startTranscription
StartTranscription(L) ==
    /\ isTranscribing \/ nextStart <= L.starts
    /\ Commit([startTranscription(Cur) EXCEPT !.lastOp = Op("start", NULL, isTranscribing)])

\* getUserMedia of start s settles
StreamAcquired ==
    \E s \in starts, outcome \in Outcomes :
        Commit([startTranscriptionResume(Cur, s, outcome)
                   EXCEPT !.lastOp = Acquired(s, outcome)])

\* the ribbon icon (only while transcribing) or onunload calls stopTranscription
StopTranscription ==
    \E caller \in {"ribbon", "onunload"} :
        /\ caller = "ribbon" => isTranscribing
        /\ Commit([stopTranscription(Cur)
                      EXCEPT !.lastOp = Op("stop", NULL, isTranscribing)])

\* an attached processor delivers a block
AudioProcess(L) ==
    \E p \in attached, v \in Amplitudes :
        /\ nextBlock <= L.blocks
        /\ LET block == [i \in 1..BlockLen |->
                            [id |-> (nextBlock - 1) * BlockLen + i, v |-> v, p |-> p]]
               S == onaudioprocess(Cur, p, block)
           IN  /\ S.nextCall <= L.calls + 1
               /\ Commit([S EXCEPT !.lastOp = Op("audio", p, FALSE)])

\* the fetch of call c returns a response, OK or not
FetchResponse ==
    \E c \in calls, ok \in BOOLEAN :
        /\ c.phase = "fetch"
        /\ Commit([sendChunkResponse(Cur, c, ok)
                      EXCEPT !.lastOp = Op("response", c.p, FALSE)])

\* the fetch of call c fails (network error)
FetchFailed(L) ==
    \E c \in calls :
        /\ c.phase = "fetch"
        /\ LET S == onaudioprocessCatch(Cur, c)
           IN  /\ S.nextCall <= L.calls + 1
               /\ Commit([S EXCEPT !.lastOp = Op("failed", c.p, FALSE)])

\* the body of an OK response is read: sendChunk returns a transcript
BodyRead(L) ==
    \E c \in calls, transcript \in L.transcripts, hasEditor \in BOOLEAN :
        /\ c.phase = "body"
        /\ LET S == onaudioprocessResume(Cur, c, transcript, hasEditor)
           IN  /\ S.nextCall <= L.calls + 1
               /\ Commit([S EXCEPT !.lastOp = Received(c.p, transcript, hasEditor,
                                                           lastTranscriptTail)])

\* the body of an OK response cannot be read or parsed: sendChunk throws
BodyFailed(L) ==
    \E c \in calls :
        /\ c.phase = "body"
        /\ LET S == onaudioprocessCatch(Cur, c)
           IN  /\ S.nextCall <= L.calls + 1
               /\ Commit([S EXCEPT !.lastOp = Op("failed", c.p, FALSE)])

\* the body of a non-OK response is read: sendChunk throws the HTTP error
HttpError(L) ==
    \E c \in calls :
        /\ c.phase = "errorBody"
        /\ LET S == onaudioprocessCatch(Cur, c)
           IN  /\ S.nextCall <= L.calls + 1
               /\ Commit([S EXCEPT !.lastOp = Op("failed", c.p, FALSE)])

Next(L) ==
    \/ StartTranscription(L)
    \/ StreamAcquired
    \/ StopTranscription
    \/ AudioProcess(L)
    \/ FetchResponse
    \/ FetchFailed(L)
    \/ BodyRead(L)
    \/ BodyFailed(L)
    \/ HttpError(L)

\* one recording session
Spec == Init /\ [][Next(Limits(MaxBlocks, MaxCalls, MaxStarts))]_vars

\* a session, its stop and the session after it
SpecSessions == Init /\ [][Next(Limits(MaxBlocks, MaxCalls + 1, MaxStarts + 1))]_vars

\* ------------------------------------------- the sample queue, called directly
\* the settings of the specifications below
SessionSettings ==
    [endpointUrl |-> "http://stt", chunkMs |-> Num(63),
     silenceThreshold |-> Num(defaultSilenceThreshold),
     maxBufferedChunks |-> Num(2 * Milli), maxConsecutiveWordRepeats |-> Num(2 * Milli)]

InitQueue == InitOf({SessionSettings}, {InitDoc}) /\ editorCursor = 0

\* the samples of the chunks taken so far, in order
TakenSamples(log) == Concat([k \in 1..Len(log) |-> log[k].samples])

\* a block of 1..BlockLen samples is pushed (lines 311-312), its samples
\* numbered on from those pushed before
PushBlock ==
    \E n \in 1..BlockLen :
        /\ nextBlock <= MaxBlocks + 1
        /\ LET pushed == Len(TakenSamples(chunkLog)) + Len(Concat(sampleBuffers))
               block  == [i \in 1..n |-> [id |-> pushed + i, v |-> AmpUnit, p |-> NULL]]
           IN  Commit([Cur EXCEPT
                          !.sampleBuffers = Append(@, block),
                          !.samplesCollected = @ + Len(block),
                          !.nextBlock = @ + 1,
                          !.lastOp = Op("push", NULL, FALSE)])

\* takeSamples(count) for a count the queue holds
TakeSamples ==
    \E count \in 0..samplesCollected :
        /\ Len(chunkLog) <= MaxCalls
        /\ LET t == takeSamples(sampleBuffers, samplesCollected, count)
           IN  Commit([Cur EXCEPT
                          !.sampleBuffers = t.sampleBuffers,
                          !.samplesCollected = t.samplesCollected,
                          !.chunkLog = Append(@, [by |-> NULL, samples |-> t.out,
                                                  silent |-> FALSE]),
                          !.lastOp = [op |-> "take", p |-> NULL, was |-> FALSE,
                                      count |-> count, out |-> t.out]])

NextQueue == PushBlock \/ TakeSamples

SpecQueue == InitQueue /\ [][NextQueue]_vars

\* takeSamples(count) for a count larger than the running count
TakeSamplesShort ==
    \E count \in (samplesCollected + 1)..(samplesCollected + BlockLen) :
        /\ samplesCollected >= 0
        /\ Len(chunkLog) <= MaxCalls
        /\ LET t == takeSamples(sampleBuffers, samplesCollected, count)
           IN  Commit([Cur EXCEPT
                          !.sampleBuffers = t.sampleBuffers,
                          !.samplesCollected = t.samplesCollected,
                          !.chunkLog = Append(@, [by |-> NULL, samples |-> t.out,
                                                  silent |-> FALSE]),
                          !.lastOp = [op |-> "take", p |-> NULL, was |-> FALSE,
                                      count |-> count, out |-> t.out]])

NextShort == PushBlock \/ TakeSamples \/ TakeSamplesShort

\* the queue with calls of takeSamples that ask for more than it holds
SpecShort == InitQueue /\ [][NextShort]_vars

\* ---------------------------------------------- the backlog trim, called directly
InitTrim ==
    /\ InitOf([endpointUrl : {"http://stt"},
               chunkMs : ChunkMsValues,
               silenceThreshold : {Num(defaultSilenceThreshold)},
               maxBufferedChunks : BufferedChunksValues,
               maxConsecutiveWordRepeats : {Num(2 * Milli)}],
              {InitDoc})
    /\ editorCursor = 0

\* trimBacklog(samplesPerChunk) (line 313), samplesPerChunk that of the settings
TrimBacklog ==
    LET samplesPerChunk == SamplesPerChunk(settings.chunkMs)
        trimmed == trimBacklog(sampleBuffers, samplesCollected, samplesPerChunk,
                               maxBufferedChunks)
    IN  Commit([Cur EXCEPT
                   !.sampleBuffers = trimmed.sampleBuffers,
                   !.samplesCollected = trimmed.samplesCollected,
                   !.lastOp = [op |-> "trim", p |-> NULL, was |-> FALSE,
                               maxSamples |-> samplesPerChunk * maxBufferedChunks]])

NextTrim == PushBlock \/ TrimBacklog

SpecTrim == InitTrim /\ [][NextTrim]_vars

\* ------------------------------------- the transcript stitcher, called directly
\* all sequences over S of length at most n
SeqsUpTo(S, n) == UNION {[1..k -> S] : k \in 0..n}

StitchWords == {<<"a">>, <<"A">>, <<"b">>}

\* texts of at most MaxWords words, a space between two words
StitchTexts == {join(ws, <<" ">>) : ws \in SeqsUpTo(StitchWords, MaxWords)}

Str_said_hello  == <<"s", "a", "i", "d", " ", "h", "e", "l", "l", "o">>
Str_hello_world == <<"h", "e", "l", "l", "o", " ", "w", "o", "r", "l", "d">>
Str_world       == <<"w", "o", "r", "l", "d">>
Str_go_x4       == <<"g", "o", " ", "g", "o", " ", "g", "o", " ", "g", "o">>
Str_go_x2       == <<"g", "o", " ", "g", "o">>
\* seven words "a", and the same followed by a word "b"
Str_a_x7        == join([i \in 1..(MaxOverlapWords + 1) |-> <<"a">>], <<" ">>)
Str_a_x7_b      == Str_a_x7 \o <<" ", "b">>

\* the tails and the transcripts of the calls of cleanTranscript
StitchTails    == StitchTexts \cup {Str_said_hello, Str_a_x7, <<" ">>, <<"a", " ", "b", " ">>}
StitchIncoming == StitchTexts
                  \cup {<<" ">> \o t : t \in StitchTexts}
                  \cup {Str_hello_world, Str_a_x7_b, <<"a", " ", " ", "b", "\t">>}

\* the texts of the calls of dedupeConsecutiveWords
DedupeTexts == SeqsUpTo({"g", "G", ",", " "}, MaxTextLen) \cup StitchTexts \cup {Str_go_x4}

InitStitch ==
    /\ InitOf({[SessionSettings EXCEPT !.maxConsecutiveWordRepeats = Num(m * Milli)] :
                   m \in 1..MaxRepeats}, {InitDoc})
    /\ editorCursor = 0

\* updateTail on the empty tail (line 348): the tail becomes a text inserted
UpdateTail ==
    \E appended \in StitchTails :
        /\ lastTranscriptTail = <<>>
        /\ lastOp.op = "onload"
        /\ Commit([Cur EXCEPT !.lastTranscriptTail = updateTail(@, appended),
                              !.lastOp = Op("tail", NULL, FALSE)])

\* cleanTranscript(incoming, this.lastTranscriptTail) (line 327)
CleanTranscript ==
    \E incoming \in StitchIncoming :
        /\ lastOp.op \in {"onload", "tail"}
        /\ Commit([Cur EXCEPT !.lastOp =
                      [op |-> "clean", p |-> NULL, was |-> FALSE,
                       incoming |-> incoming, tail |-> lastTranscriptTail,
                       result |-> cleanTranscript(incoming, lastTranscriptTail,
                                                  maxConsecutiveWordRepeats)]])

\* dedupeConsecutiveWords(text)
DedupeConsecutiveWords ==
    \E text \in DedupeTexts :
        /\ lastOp.op = "onload"
        /\ Commit([Cur EXCEPT !.lastOp =
                      [op |-> "dedupe", p |-> NULL, was |-> FALSE, text |-> text,
                       result |-> dedupeConsecutiveWords(text, maxConsecutiveWordRepeats)]])

NextStitch == UpdateTail \/ CleanTranscript \/ DedupeConsecutiveWords

SpecStitch == InitStitch /\ [][NextStitch]_vars

\* ------------------------------------------------- the insertions of a session
InsertDocs == {<<>>, <<"x">>, <<"x", " ">>}
InsertTranscripts == Transcripts \cup {<<" ">>, <<" ", "b">>}

InitInsert == InitOf({SessionSettings}, InsertDocs)

\* the user moves the cursor of the active editor, to the start or the end of
\* the document
MoveCursor ==
    \E offset \in {0, Len(doc)} :
        /\ offset # editorCursor
        /\ Commit([Cur EXCEPT !.editorCursor = offset,
                              !.lastOp = Op("cursor", NULL, FALSE)])

NextInsert(L) == Next(L) \/ MoveCursor

\* one recording session in an editor the user works in
SpecInsert ==
    InitInsert /\ [][NextInsert([Limits(MaxBlocks, MaxCalls, 1)
                                    EXCEPT !.transcripts = InsertTranscripts])]_vars

\* a session whose transcripts are single words of LongLen characters
LongTranscripts == {[i \in 1..LongLen |-> "a"], [i \in 1..LongLen |-> "b"]}

InitTail == InitOf({SessionSettings}, {InitDoc})

SpecTail ==
    InitTail /\ [][Next([Limits(MaxBlocks, MaxCalls, 1)
                            EXCEPT !.transcripts = LongTranscripts])]_vars

\* a session in a document of five characters or more, the cursor at offset 5,
\* the service returning "the cat sat" and "cat sat on the mat"
Str_the_cat_sat == <<"t", "h", "e", " ", "c", "a", "t", " ", "s", "a", "t">>
Str_on_the_mat  == <<"o", "n", " ", "t", "h", "e", " ", "m", "a", "t">>
Str_cat_sat_on_the_mat == <<"c", "a", "t", " ", "s", "a", "t", " ">> \o Str_on_the_mat

ScenarioDocs == {<<"n", "o", "t", "e", " ">>, <<"n", "o", "t", "e", "s">>,
                 <<"n", "o", "t", "e", ":", " ", "x">>}
ScenarioTranscripts == {Str_the_cat_sat, Str_cat_sat_on_the_mat}

InitScenario == InitOf({SessionSettings}, ScenarioDocs) /\ editorCursor = 5

SpecScenario ==
    InitScenario /\ [][Next([Limits(MaxBlocks, MaxCalls, 1)
                                EXCEPT !.transcripts = ScenarioTranscripts])]_vars

\* ------------------------------------------------- the settings tab in use
MaxSaves       == 1     \* onChange handlers awaiting saveSettings at one time
SettingsBlocks == 1     \* audio blocks delivered while the settings tab is in use
SettingsCalls  == 1     \* transcription calls dispatched while it is in use

TuningFields == {"chunkMs", "silenceThreshold", "maxBufferedChunks",
                 "maxConsecutiveWordRepeats"}

\* Number(value) of the texts typed into a tuning field: a text that is not a
\* number, 0, 1 and 2 (for the threshold: twice full scale)
TypedNumbers(field) ==
    IF field = "silenceThreshold" THEN {NaN, Num(2 * AmpUnit)}
    ELSE IF field = "chunkMs" THEN {NaN, Num((MinChunkMs + 1) * Milli)}
    ELSE {NaN, Num(0), Num(Milli)}

\* the user edits a tuning field
SettingChanged ==
    \E field \in TuningFields :
        \E num \in TypedNumbers(field) :
            /\ saving < MaxSaves
            /\ Commit([onChange(Cur, field, num) EXCEPT !.lastOp = Op("setting", NULL, FALSE)])

\* saveSettings of an onChange handler returns
SettingSaved ==
    /\ saving > 0
    /\ Commit([onChangeResume(Cur) EXCEPT !.lastOp = Op("saved", NULL, FALSE)])

\* saveSettings of an onChange handler rejects: the handler ends
SettingSaveFailed ==
    /\ saving > 0
    /\ Commit([Cur EXCEPT !.saving = @ - 1, !.lastOp = Op("saveFailed", NULL, FALSE)])

NextSettings(L) == Next(L) \/ SettingChanged \/ SettingSaved \/ SettingSaveFailed

InitSettings == InitOf({SessionSettings}, {InitDoc}) /\ editorCursor = Len(InitDoc)

\* one recording session while the user edits the tuning fields
SpecSettings ==
    InitSettings /\ [][NextSettings(Limits(SettingsBlocks, SettingsCalls, 1))]_vars

\* ------------------------------------------- the silence gate, called directly
MaxSilenceLen == 2  \* samples of a block given to isMostlySilence

\* a block of the given amplitudes
BlockOfAmplitudes(vs) == [i \in 1..Len(vs) |-> [id |-> i, v |-> vs[i], p |-> NULL]]

\* one period of a full-scale sine of 1 kHz at 16 kHz: AmpUnit * sin(i * pi / 8)
SineBlock ==
    BlockOfAmplitudes(<<0, 3827, 7071, 9239, 10000, 9239, 7071, 3827,
                        0, -3827, -7071, -9239, -10000, -9239, -7071, -3827>>)

ZeroBlock == BlockOfAmplitudes([i \in 1..16 |-> 0])

\* a block of 17 samples: one of amplitude a, then zeros
TransientBlock(a) == BlockOfAmplitudes([i \in 1..17 |-> IF i = 1 THEN a ELSE 0])

\* amplitudes around the default threshold 0.0015 and 4 times it, and full scale
SilenceAmplitudes == {-AmpUnit, -60, -15, 0, 14, 15, 59, 60, AmpUnit}

SilenceBlocks ==
    {BlockOfAmplitudes(vs) : vs \in SeqsUpTo(SilenceAmplitudes, MaxSilenceLen)}
    \cup {SineBlock, ZeroBlock, TransientBlock(59), TransientBlock(60), TransientBlock(-60)}

\* the stored thresholds: negative, 0, the least positive one, the default
\* 0.0015, 0.25 and 0.7071 and the next one above each, and the largest below 1
SilenceThresholds ==
    {Num(-15), Num(0), Num(1), Num(defaultSilenceThreshold), Num(2500), Num(2501),
     Num(7071), Num(7072), Num(AmpUnit - 1), NaN}

InitSilence ==
    /\ InitOf({[SessionSettings EXCEPT !.silenceThreshold = t] : t \in SilenceThresholds},
              {InitDoc})
    /\ editorCursor = 0

\* isMostlySilence(samples) (line 317)
IsMostlySilence ==
    \E samples \in SilenceBlocks :
        Commit([Cur EXCEPT !.lastOp =
                  [op |-> "silence", p |-> NULL, was |-> FALSE, samples |-> samples,
                   result |-> isMostlySilence(samples, silenceRmsThreshold)]])

SpecSilence == InitSilence /\ [][IsMostlySilence]_vars

\* ---------------------------------------------- the encoder, called directly
MaxWavLen == 2      \* samples of a block given to encodeWav

\* sample values: beyond full scale, full scale, halves, the least steps
\* around 0, and NaN
WavSamples ==
    {Sample(v) : v \in {-2 * AmpUnit, -AmpUnit, -5000, -3, 0, 1, 5000, AmpUnit, 2 * AmpUnit}}
    \cup {NaNSample}

\* the sample rates of an AudioContext
SampleRates == {8000, targetSampleRate, 44100, 48000}

InitWav == InitOf({SessionSettings}, {InitDoc}) /\ editorCursor = 0

\* encodeWav(chunkSamples, this.targetSampleRate) (line 320)
EncodeWav ==
    \E samples \in SeqsUpTo(WavSamples, MaxWavLen), sampleRate \in SampleRates :
        /\ lastOp.op = "onload"
        /\ Commit([Cur EXCEPT !.lastOp =
                      [op |-> "wav", p |-> NULL, was |-> FALSE,
                       samples |-> samples, sampleRate |-> sampleRate,
                       bytes |-> encodeWav(samples, sampleRate)]])

SpecWav == InitWav /\ [][EncodeWav]_vars

\* ------------------------------------------------------ the tuning settings
\* the stored repeat bounds: not a number, negative, 0, 0.5, 1, 1.499, 1.5, 3
RepeatSettings ==
    {NaN, Num(-Milli), Num(0), Num(Milli \div 2), Num(Milli), Num(Milli + 499),
     Num(Milli + 500), Num(3 * Milli)}

InitTuning ==
    /\ InitOf({[SessionSettings EXCEPT !.maxConsecutiveWordRepeats = r] : r \in RepeatSettings},
              {InitDoc})
    /\ editorCursor = 0

NextTuning == SettingChanged \/ SettingSaved \/ SettingSaveFailed

\* the settings loaded at onload and edited in the settings tab, no session
SpecTuning == InitTuning /\ [][NextTuning]_vars

\* the stored backlog bounds: not a number, negative, 0, 0.4, 0.5, 1, 2.5
BufferSettings ==
    {NaN, Num(-Milli), Num(0), Num(400), Num(Milli \div 2), Num(Milli), Num(2 * Milli + 500)}

\* the stored silence thresholds: not a number, negative, 0, the default
ThresholdSettings == {NaN, Num(-defaultSilenceThreshold), Num(0), Num(defaultSilenceThreshold)}

InitStored ==
    /\ InitOf([endpointUrl : {"http://stt"},
               chunkMs : {Num(63)},
               silenceThreshold : ThresholdSettings,
               maxBufferedChunks : BufferSettings,
               maxConsecutiveWordRepeats : {NaN, Num(Milli \div 2), Num(Milli + 500)}],
              {InitDoc})
    /\ editorCursor = 0

\* any stored settings loaded at onload, then edited in the settings tab
SpecStored == InitStored /\ [][NextTuning]_vars

\* a session whose transcripts have whitespace at their ends and runs of it
UntidyTranscripts ==
    {<<"a", " ", " ", "b", "\t">>, <<" ", "b", " ">>, <<"\n", " ">>, <<"b", "\n", "c">>}

SpecUntidy ==
    InitInsert /\ [][Next([Limits(MaxBlocks, MaxCalls, 1)
                              EXCEPT !.transcripts = UntidyTranscripts])]_vars

\* ------------------------------------------------------------------- claims
IsSuffix(a, b) == Len(a) <= Len(b) /\ SubSeq(b, Len(b) - Len(a) + 1, Len(b)) = a

\* C1: within a session the insertions are applied in the order in which their
\* chunks were extracted from the queue, whatever the completion order of the
\* transcription calls.
C1_InsertionsInChunkOrder ==
    \A i, j \in 1..Len(insertLog) :
        (i < j /\ insertLog[i].p = insertLog[j].p) => insertLog[i].chunk < insertLog[j].chunk

\* C2: no response of a stopped session causes an insertion: every insertion
\* is made by a callback whose processor is still attached.
C2_NoInsertionAfterStop ==
    \A i \in 1..Len(insertLog) : insertLog[i].live

\* C3: after a transcription call of a session has failed, isTranscribing is
\* false, the queue is empty with count 0, the tail is empty, and no call of
\* that session is outstanding (the others aborted, none dispatched since).
C3_FailureTearsDownSession ==
    lastOp.op = "failed" =>
        /\ ~isTranscribing
        /\ sampleBuffers = <<>>
        /\ samplesCollected = 0
        /\ lastTranscriptTail = <<>>
        /\ \A c \in calls : c.p # lastOp.p

\* C4: after the trim step of an arriving block at most samplesPerChunk *
\* maxBufferedChunks samples are queued, and what the trim discarded are the
\* oldest samples: the queue after it is the newest end of the queue before it.
C4_TrimBoundsBacklog ==
    /\ trimLog.count <= trimLog.maxSamples
    /\ Len(trimLog.after) <= trimLog.maxSamples
    /\ IsSuffix(trimLog.after, trimLog.before)

\* a block has arrived whose trim discarded samples and kept others
C4_Witness ==
    /\ lastOp.op = "audio"
    /\ trimLog.after # <<>>
    /\ Len(trimLog.after) < Len(trimLog.before)

\* C5: at most one transcription call of a session is outstanding at any time.
C5_AtMostOneOutstandingCall ==
    \A c, d \in calls : c.p = d.p => c = d

\* C6: when stopTranscription has run in state Recording, the state is Idle,
\* the queue is empty with count 0, the tail is empty, no transcription call
\* is outstanding, the pending list is empty and no processor is attached; and
\* the session after it starts with an unset cursor and an empty tail.
C6_StopResetsSession ==
    /\ (lastOp.op = "stop" /\ lastOp.was) =>
           /\ ~isTranscribing
           /\ sampleBuffers = <<>>
           /\ samplesCollected = 0
           /\ lastTranscriptTail = <<>>
           /\ calls = {}
           /\ pendingControllers = <<>>
           /\ audioProcessor = NULL
           /\ attached = {}
    /\ (lastOp.op = "acquired" /\ lastOp.p \in attached) =>
           /\ closures[lastOp.p].baseOffset = NoOffset
           /\ lastTranscriptTail = <<>>

\* C7: between a stop and the next start, the completion of a call dispatched
\* before the stop leaves the tail empty, the queue empty with count 0 and the
\* pending list as the stop left it.
C7_IdleStateStaysReset ==
    (/\ lastOp.op \in {"response", "transcript", "failed"}
     /\ lastOp.p \notin attached
     /\ ~isTranscribing) =>
        /\ lastTranscriptTail = <<>>
        /\ sampleBuffers = <<>>
        /\ samplesCollected = 0
        /\ pendingControllers = <<>>

\* C8: session state is not shared across sessions: a callback takes only
\* samples its own processor pushed, and once another session's processor is
\* current a callback of a stopped session inserts nothing (so moves neither
\* the old cursor nor the new tail).
C8_SessionStateNotShared ==
    /\ \A k \in 1..Len(chunkLog) :
           \A i \in 1..Len(chunkLog[k].samples) :
               chunkLog[k].samples[i].p = chunkLog[k].by
    /\ \A i \in 1..Len(insertLog) :
           insertLog[i].live \/ insertLog[i].current = NULL

\* C9: startTranscription called while isTranscribing is true changes nothing
\* of the program's state.
C9_StartWhileRecordingIsNoOp ==
    [][(lastOp'.op = "start" /\ isTranscribing) => UNCHANGED progVars]_vars

\* startTranscription has been called during a session that is capturing
C9_Witness ==
    /\ lastOp.op = "start"
    /\ lastOp.was
    /\ isTranscribing
    /\ audioProcessor # NULL
    /\ sampleBuffers # <<>>

\* C10: stopTranscription called while Idle changes nothing of the program's
\* state, and every stop leaves the state Idle: a stop after a stop is a no-op.
C10_StopWhileIdleIsNoOp ==
    [][(lastOp'.op = "stop") =>
          /\ ~isTranscribing'
          /\ (~isTranscribing => UNCHANGED progVars)]_vars

\* stopTranscription has been called while Idle, after a session
C10_Witness ==
    /\ lastOp.op = "stop"
    /\ ~lastOp.was
    /\ nextStart > 1
    /\ ~isTranscribing

\* C11: in every state samplesCollected equals the sum of the lengths of the
\* blocks held in sampleBuffers, and is not negative.
C11_CountMatchesQueue ==
    /\ samplesCollected = Len(Concat(sampleBuffers))
    /\ samplesCollected >= 0

\* a chunk has been extracted whose end fell inside a block, the rest of the
\* block staying queued
C11_Witness ==
    /\ chunkLog # <<>>
    /\ sampleBuffers # <<>>
    /\ Len(sampleBuffers[1]) < BlockLen
    /\ samplesCollected > 0

\* C12: takeSamples(n), n at most the queued count, returns the first n samples
\* of the concatenation of the queued blocks, leaves the others queued in
\* their order with the blocks whole except the one in which the chunk ends,
\* and lowers the count by n; the chunks taken, in order, followed by what is
\* queued are the samples in the order they were pushed.
C12_TakeSamplesIsFifo ==
    [][lastOp'.op = "take" =>
          LET all == Concat(sampleBuffers)
              n   == lastOp'.count
              seq == TakenSamples(chunkLog') \o Concat(sampleBuffers')
          IN  /\ lastOp'.out = SubSeq(all, 1, n)
              /\ Concat(sampleBuffers') = SubSeq(all, n + 1, Len(all))
              /\ samplesCollected' = samplesCollected - n
              /\ \E j \in 1..(Len(sampleBuffers) + 1) :
                     \/ sampleBuffers' = SubSeq(sampleBuffers, j, Len(sampleBuffers))
                     \/ /\ j <= Len(sampleBuffers)
                        /\ \E cut \in 1..(Len(sampleBuffers[j]) - 1) :
                               sampleBuffers' =
                                   <<SubSeq(sampleBuffers[j], cut + 1, Len(sampleBuffers[j]))>>
                                   \o SubSeq(sampleBuffers, j + 1, Len(sampleBuffers))
              /\ \A i \in 1..Len(seq) : seq[i].id = i]_vars

\* of two pushed blocks, one take has returned the first and a part of the
\* second, whose rest is queued
C12_Witness ==
    /\ lastOp.op = "take"
    /\ nextBlock = 3
    /\ Len(chunkLog) = 1
    /\ Len(lastOp.out) > BlockLen
    /\ sampleBuffers # <<>>

\* C13: a chunk classified as silence is never sent and never inserted, and the
\* loop goes on after it: it ends only when less than a chunk is queued. A
\* block whose chunks are all silent changes the queue alone: the block is
\* pushed and trimmed and the chunks are removed from its front, while the
\* calls, the pending list, the document, the tail and the cursors stay.
C13_SilentChunkHasNoEffect ==
    [][LET new == (Len(chunkLog) + 1)..Len(chunkLog')
       IN  /\ \A k \in 1..Len(chunkLog') :
                  chunkLog'[k].silent =>
                      /\ \A c \in calls' : c.chunk # k
                      /\ \A i \in 1..Len(insertLog') : insertLog'[i].chunk # k
           /\ \A k \in new :
                  (chunkLog'[k].silent /\ k = Len(chunkLog')) =>
                      samplesCollected' < closures'[chunkLog'[k].by].samplesPerChunk
           /\ (lastOp'.op = "audio" /\ new # {} /\ \A k \in new : chunkLog'[k].silent) =>
                  /\ trimLog'.after =
                         Concat([k \in 1..(Len(chunkLog') - Len(chunkLog)) |->
                                    chunkLog'[Len(chunkLog) + k].samples])
                         \o Concat(sampleBuffers')
                  /\ UNCHANGED <<calls, pendingControllers, doc, editorCursor,
                                 lastTranscriptTail, closures, insertLog, nextCall,
                                 isTranscribing, audioProcessor, attached>>]_vars

\* one block has given two chunks, both silent and both discarded
C13_Witness ==
    /\ lastOp.op = "audio"
    /\ Len(chunkLog) >= 2
    /\ chunkLog[Len(chunkLog)].silent
    /\ chunkLog[Len(chunkLog) - 1].silent
    /\ trimLog.before = chunkLog[Len(chunkLog) - 1].samples \o chunkLog[Len(chunkLog)].samples
    /\ isTranscribing
    /\ sampleBuffers = <<>>

\* C14: when sendChunk returns an empty transcript, or one whose merge with the
\* tail is empty, the callback inserts nothing: the document, the tail, the
\* cursor of the session (set or not) and the editor's cursor stay as they are.
C14_EmptyMergeInsertsNothing ==
    [][(/\ lastOp'.op = "transcript"
        /\ \/ lastOp'.transcript = <<>>
           \/ cleanTranscript(lastOp'.transcript, lastTranscriptTail,
                              maxConsecutiveWordRepeats) = <<>>) =>
           UNCHANGED <<doc, lastTranscriptTail, closures, editorCursor, insertLog>>]_vars

\* after an insertion, a transcript that is not empty has merged to nothing with
\* the tail of that insertion
C14_Witness ==
    /\ lastOp.op = "transcript"
    /\ lastOp.hasEditor
    /\ lastOp.transcript # <<>>
    /\ lastOp.tail # <<>>
    /\ trim(lastOp.transcript) # <<>>
    /\ cleanTranscript(lastOp.transcript, lastOp.tail, maxConsecutiveWordRepeats) = <<>>
    /\ insertLog # <<>>
    /\ lastTranscriptTail = lastOp.tail
    /\ closures[lastOp.p].baseOffset # NoOffset

\* C15: the cursor of a session is read from the editor's cursor at the first
\* insertion of the session and at no later one; an insertion puts its text
\* into the document at the cursor and moves the cursor on by the length of the
\* text, and nothing else moves it: each insertion of a session starts where
\* the one before it ended.
C15_CursorAdvancesByInsertedLength ==
    [][/\ (lastOp'.op = "transcript" /\ Len(insertLog') > Len(insertLog)) =>
              LET e == insertLog'[Len(insertLog')]
                  p == lastOp'.p
              IN  /\ insertLog' = Append(insertLog, e)
                  /\ e.p = p
                  /\ e.offset = IF closures[p].baseOffset = NoOffset
                                THEN editorCursor ELSE closures[p].baseOffset
                  /\ doc' = SubSeq(doc, 1, e.offset) \o e.text
                                \o SubSeq(doc, e.offset + 1, Len(doc))
                  /\ closures'[p].baseOffset = e.offset + Len(e.text)
                  /\ closures'[p].baseOffset > e.offset
                  /\ \A q \in DOMAIN closures \ {p} :
                         closures'[q].baseOffset = closures[q].baseOffset
       /\ insertLog' = insertLog =>
              \A q \in DOMAIN closures : closures'[q].baseOffset = closures[q].baseOffset
       /\ \A i, j \in 1..Len(insertLog') :
              (/\ i < j
               /\ insertLog'[i].p = insertLog'[j].p
               /\ \A k \in (i + 1)..(j - 1) : insertLog'[k].p # insertLog'[i].p) =>
                  insertLog'[j].offset = insertLog'[i].offset + Len(insertLog'[i].text)]_vars

\* a session has inserted twice: first at the editor's cursor, not at offset 0,
\* then, with a space prepended, where the first insertion ended
C15_Witness ==
    /\ lastOp.op = "transcript"
    /\ Len(insertLog) = 2
    /\ insertLog[1].p = insertLog[2].p
    /\ insertLog[1].offset > 0
    /\ insertLog[2].text[1] = " "
    /\ insertLog[2].offset = insertLog[1].offset + Len(insertLog[1].text)
    /\ closures[insertLog[2].p].baseOffset = insertLog[2].offset + Len(insertLog[2].text)

\* the words of a text: its maximal runs of characters that are not whitespace
WordsOf(s) == SelectSeq(RunsFrom(s, 1), LAMBDA t : ~IsWsToken(t))

\* a text without its first k words
RECURSIVE DropWords(_, _)
DropWords(s, k) ==
    IF k = 0 THEN s
    ELSE LET t  == trimStart(s)
             ws == {i \in 1..Len(t) : IsWs(t[i])}
         IN  IF ws = {} THEN <<>> ELSE DropWords(SubSeq(t, SetMin(ws), Len(t)), k - 1)

\* the largest k in 1..min(6, #tw, #iw) such that the last k words of tw are
\* the first k words of iw up to case, 0 if there is none
Overlap(tw, iw) ==
    LET K == {k \in 1..Min2(6, Min2(Len(tw), Len(iw))) :
                 \A i \in 1..k : toLowerCase(tw[Len(tw) - k + i]) = toLowerCase(iw[i])}
    IN  IF K = {} THEN 0 ELSE SetMax(K)

\* C16: cleanTranscript(incoming, tail) is dedupeConsecutiveWords of the
\* left-trimmed incoming text without its first k words, k the largest overlap
\* of at most 6 words between the end of the trimmed tail and the start of
\* incoming, compared without case, and 0 if there is none or the tail is
\* empty; "hello world" after the tail "said hello" gives "world".
C16_CleanTranscriptDropsLargestOverlap ==
    lastOp.op = "clean" =>
        /\ lastOp.result =
               dedupeConsecutiveWords(
                   DropWords(trimStart(lastOp.incoming),
                             Overlap(WordsOf(trim(lastOp.tail)), WordsOf(lastOp.incoming))),
                   maxConsecutiveWordRepeats)
        /\ (lastOp.incoming = Str_hello_world /\ lastOp.tail = Str_said_hello) =>
               lastOp.result = Str_world

\* a transcript whose first word and whose first two words both end the tail
\* has lost the two words and kept the rest
C16_Witness ==
    /\ lastOp.op = "clean"
    /\ Overlap(WordsOf(trim(lastOp.tail)), WordsOf(lastOp.incoming)) = 2
    /\ toLowerCase(WordsOf(lastOp.tail)[Len(WordsOf(lastOp.tail))])
           = toLowerCase(WordsOf(lastOp.incoming)[1])
    /\ Len(WordsOf(lastOp.incoming)) = 3
    /\ lastOp.result = WordsOf(lastOp.incoming)[3]

\* word i of words is dropped for the repeat bound m: its normalized form is
\* not empty and is that of each of the m words before it
Dropped(words, i, m) ==
    /\ normalize(words[i]) # <<>>
    /\ i > m
    /\ \A j \in (i - m)..(i - 1) : normalize(words[j]) = normalize(words[i])

\* the words of words, from i, that are not dropped
RECURSIVE Kept(_, _, _)
Kept(words, i, m) ==
    IF i > Len(words) THEN <<>>
    ELSE (IF Dropped(words, i, m) THEN <<>> ELSE <<words[i]>>) \o Kept(words, i + 1, m)

\* C17: dedupeConsecutiveWords with repeat bound m returns the words of the
\* text, in order and as written, one space between two, without every word
\* that is the m-th or a later consecutive repeat of a word whose normalized
\* form is not empty: at most m consecutive words of the result have the same
\* normalized form, and "go go go go" gives "go go" for m = 2.
C17_DedupeKeepsAtMostMRepeats ==
    lastOp.op = "dedupe" =>
        LET m   == maxConsecutiveWordRepeats
            out == WordsOf(lastOp.result)
        IN  /\ m >= 1
            /\ lastOp.result = join(Kept(WordsOf(lastOp.text), 1, m), <<" ">>)
            /\ \A i \in 1..(Len(out) - m) :
                   normalize(out[i]) # <<>> =>
                       \E j \in (i + 1)..(i + m) : normalize(out[j]) # normalize(out[i])
            /\ (lastOp.text = Str_go_x4 /\ m = 2) => lastOp.result = Str_go_x2

\* with bound 2, a text of three words has lost its third word, a repeat of
\* the second and of the first
C17_Witness ==
    /\ lastOp.op = "dedupe"
    /\ maxConsecutiveWordRepeats = 2
    /\ Len(WordsOf(lastOp.text)) = 3
    /\ Len(WordsOf(lastOp.result)) = 2
    /\ WordsOf(lastOp.text)[1] # WordsOf(lastOp.text)[2]

\* the last n characters of s
LastChars(s, n) == IF Len(s) <= n THEN s ELSE SubSeq(s, Len(s) - n + 1, Len(s))

\* the texts inserted since the tail was last empty, in one string
InsertedSinceReset(log) ==
    LET first == SetMax({j \in 1..Len(log) : log[j].fresh})
    IN  Concat([k \in 1..(Len(log) - first + 1) |-> log[first + k - 1].text])

\* C18: the tail never has more than 200 characters; an insertion makes it the
\* last 200 characters of the tail before followed by the inserted text; and
\* unless a start or a stop has emptied it, it is the last 200 characters of
\* all the texts inserted since it was last empty, in order.
C18_TailIsLast200OfInserted ==
    [][/\ Len(lastTranscriptTail') <= 200
       /\ Len(insertLog') > Len(insertLog) =>
              lastTranscriptTail' =
                  LastChars(lastTranscriptTail \o insertLog'[Len(insertLog')].text, 200)
       /\ lastTranscriptTail' # <<>> =>
              /\ insertLog' # <<>>
              /\ lastTranscriptTail' = LastChars(InsertedSinceReset(insertLog'), 200)]_vars

\* two insertions of one session have together more than 200 characters, and
\* the tail holds the last 200 of them
C18_Witness ==
    /\ lastOp.op = "transcript"
    /\ Len(insertLog) = 2
    /\ ~insertLog[2].fresh
    /\ Len(insertLog[1].text) + Len(insertLog[2].text) > 200
    /\ Len(lastTranscriptTail) = 200
    /\ lastTranscriptTail[1] = insertLog[1].text[1]
    /\ lastTranscriptTail[200] # insertLog[1].text[1]

\* C19: the text inserted is the merged text with one space before it when
\* the merged text does not start with whitespace, the cursor is not at offset
\* 0 and the character of the document before the cursor is not whitespace;
\* in every other case it is the merged text itself.
C19_SpacePrependedAtWordBoundary ==
    [][(lastOp'.op = "transcript" /\ Len(insertLog') > Len(insertLog)) =>
          LET e      == insertLog'[Len(insertLog')]
              merged == cleanTranscript(lastOp'.transcript, lastTranscriptTail,
                                        maxConsecutiveWordRepeats)
          IN  /\ merged # <<>>
              /\ e.text = IF /\ ~IsWs(merged[1])
                             /\ e.offset > 0
                             /\ ~IsWs(doc[e.offset])
                          THEN <<" ">> \o merged
                          ELSE merged]_vars

\* a session has inserted its first text unchanged after a whitespace
\* character of the document, and its second text with a space before it
C19_Witness ==
    /\ lastOp.op = "transcript"
    /\ Len(insertLog) = 2
    /\ insertLog[1].p = insertLog[2].p
    /\ insertLog[1].offset > 0
    /\ IsWs(doc[insertLog[1].offset])
    /\ ~IsWs(insertLog[1].text[1])
    /\ insertLog[2].text[1] = " "
    /\ ~IsWs(insertLog[2].text[2])

\* C20, as the specification states it: a chunk time of 1000 ms is 16000
\* samples; no call and no insertion is made for a silent chunk; with the
\* editor's cursor at offset 5 the first transcript of a session, "the cat
\* sat", is inserted as it is at offset 5, leaving the cursor of the session at
\* 16 and the tail "the cat sat"; after it "cat sat on the mat" overlaps the
\* tail by two words and is inserted as " on the mat" at offset 16.
C20_Scenario ==
    [][/\ SamplesPerChunk(Num(1000 * Milli)) = 16000
       /\ \A k \in 1..Len(chunkLog') :
              chunkLog'[k].silent =>
                  /\ \A c \in calls' : c.chunk # k
                  /\ \A i \in 1..Len(insertLog') : insertLog'[i].chunk # k
       /\ (/\ lastOp'.op = "transcript"
           /\ lastOp'.hasEditor
           /\ lastOp'.transcript = Str_the_cat_sat
           /\ closures[lastOp'.p].baseOffset = NoOffset
           /\ lastTranscriptTail = <<>>
           /\ editorCursor = 5) =>
              /\ Len(insertLog') = Len(insertLog) + 1
              /\ insertLog'[Len(insertLog')].offset = 5
              /\ insertLog'[Len(insertLog')].text = Str_the_cat_sat
              /\ closures'[lastOp'.p].baseOffset = 16
              /\ lastTranscriptTail' = Str_the_cat_sat
       /\ (/\ lastOp'.op = "transcript"
           /\ lastOp'.hasEditor
           /\ lastOp'.transcript = Str_cat_sat_on_the_mat
           /\ closures[lastOp'.p].baseOffset = 16
           /\ lastTranscriptTail = Str_the_cat_sat) =>
              /\ Overlap(WordsOf(trim(lastTranscriptTail)), WordsOf(lastOp'.transcript)) = 2
              /\ Len(insertLog') = Len(insertLog) + 1
              /\ insertLog'[Len(insertLog')].offset = 16
              /\ insertLog'[Len(insertLog')].text = <<" ">> \o Str_on_the_mat]_vars

\* C20, amended: the same, the first text being inserted as it is when the
\* character of the document before offset 5 is whitespace, and with one space
\* before it otherwise; the cursor and the tail after it, and the offset of
\* the second insertion, follow the text inserted.
C20_ScenarioWithSpace ==
    [][/\ SamplesPerChunk(Num(1000 * Milli)) = 16000
       /\ \A k \in 1..Len(chunkLog') :
              chunkLog'[k].silent =>
                  /\ \A c \in calls' : c.chunk # k
                  /\ \A i \in 1..Len(insertLog') : insertLog'[i].chunk # k
       /\ (/\ lastOp'.op = "transcript"
           /\ lastOp'.hasEditor
           /\ lastOp'.transcript = Str_the_cat_sat
           /\ closures[lastOp'.p].baseOffset = NoOffset
           /\ lastTranscriptTail = <<>>
           /\ editorCursor = 5) =>
              LET first == IF IsWs(doc[5]) THEN Str_the_cat_sat
                           ELSE <<" ">> \o Str_the_cat_sat
              IN  /\ Len(insertLog') = Len(insertLog) + 1
                  /\ insertLog'[Len(insertLog')].offset = 5
                  /\ insertLog'[Len(insertLog')].text = first
                  /\ closures'[lastOp'.p].baseOffset = 5 + Len(first)
                  /\ closures'[lastOp'.p].baseOffset = IF IsWs(doc[5]) THEN 16 ELSE 17
                  /\ lastTranscriptTail' = first
       /\ (/\ lastOp'.op = "transcript"
           /\ lastOp'.hasEditor
           /\ lastOp'.transcript = Str_cat_sat_on_the_mat
           /\ closures[lastOp'.p].baseOffset \in {16, 17}
           /\ trim(lastTranscriptTail) = Str_the_cat_sat
           /\ Len(lastTranscriptTail) = closures[lastOp'.p].baseOffset - 5) =>
              /\ Overlap(WordsOf(trim(lastTranscriptTail)), WordsOf(lastOp'.transcript)) = 2
              /\ Len(insertLog') = Len(insertLog) + 1
              /\ insertLog'[Len(insertLog')].offset = closures[lastOp'.p].baseOffset
              /\ insertLog'[Len(insertLog')].text = <<" ">> \o Str_on_the_mat]_vars

\* the scenario has run: a silent chunk, then two chunks of speech whose
\* transcripts were inserted at offsets 5 and 16 of a document with a space
\* before offset 5
C20_Witness ==
    /\ lastOp.op = "transcript"
    /\ Len(chunkLog) >= 3
    /\ chunkLog[1].silent
    /\ ~chunkLog[Len(chunkLog) - 1].silent
    /\ ~chunkLog[Len(chunkLog)].silent
    /\ Len(insertLog) = 2
    /\ insertLog[1].offset = 5
    /\ insertLog[1].text = Str_the_cat_sat
    /\ insertLog[2].offset = 16
    /\ insertLog[2].text = <<" ">> \o Str_on_the_mat
    /\ closures[insertLog[2].p].baseOffset = 27
    /\ lastTranscriptTail = Str_the_cat_sat \o <<" ">> \o Str_on_the_mat
    /\ IsWs(doc[5])

\* the samples of the block numbered n that processor p delivers
BlockOf(n, p) == [i \in 1..BlockLen |-> [id |-> (n - 1) * BlockLen + i, v |-> 0, p |-> p]]

\* the samples of a sequence without their amplitudes
Ids(samples) == [i \in 1..Len(samples) |-> [id |-> samples[i].id, p |-> samples[i].p]]

\* C21: the step in which a block arrives pushes it behind the samples queued
\* and trims the backlog, whatever calls are outstanding: the queue the trim
\* sees is the queue before the step followed by the block, what the trim
\* leaves is its newest end within the bound, and the outstanding calls stay
\* outstanding. In every state in which a processor is attached, a call being
\* outstanding or not, the callback run on the next block queues it.
C21_BlockArrivalNeverWaits ==
    [][/\ lastOp'.op = "audio" =>
              LET p == lastOp'.p IN
              /\ p \in attached
              /\ nextBlock' = nextBlock + 1
              /\ Ids(trimLog'.before) = Ids(Concat(sampleBuffers) \o BlockOf(nextBlock, p))
              /\ IsSuffix(trimLog'.after, trimLog'.before)
              /\ Len(trimLog'.after) <= closures[p].samplesPerChunk * maxBufferedChunks
              /\ \A c \in calls : c.p = p /\ isTranscribing' => c \in calls'
       /\ \A p \in attached :
              LET S == onaudioprocess(Cur, p, BlockOf(nextBlock, p))
              IN  /\ S.nextBlock = nextBlock + 1
                  /\ Ids(S.trimLog.before) = Ids(Concat(sampleBuffers) \o BlockOf(nextBlock, p))]_vars

\* a block has arrived and was queued while the call for the chunk of an
\* earlier block was outstanding, and is outstanding still
C21_Witness ==
    /\ lastOp.op = "audio"
    /\ isTranscribing
    /\ \E c \in calls :
           /\ c.p = lastOp.p
           /\ c.phase = "fetch"
           /\ \A i \in 1..Len(chunkLog[c.chunk].samples) :
                  chunkLog[c.chunk].samples[i].id <= (nextBlock - 2) * BlockLen
    /\ trimLog.before # <<>>
    /\ trimLog.before[Len(trimLog.before)].id = (nextBlock - 1) * BlockLen

\* C22: while a session captures, the chunk size, the backlog bound, the
\* silence threshold and the repeat bound it uses stay what they were when it
\* started: no step during which the processor of the session stays the
\* current one changes any of them, an edit of the settings included.
C22_SessionConfigIsFixed ==
    [][(audioProcessor # NULL /\ audioProcessor' = audioProcessor) =>
          /\ closures'[audioProcessor].samplesPerChunk = closures[audioProcessor].samplesPerChunk
          /\ UNCHANGED <<maxBufferedChunks, silenceRmsThreshold, maxConsecutiveWordRepeats>>]_vars

\* the starts whose getUserMedia has settled without startPCMRecorder being
\* reached
FailedStarts == {s \in 1..(nextStart - 1) : s \notin starts /\ s \notin DOMAIN closures}

\* C23: when getUserMedia rejects, or resolves to a stream without audio
\* track, the start fails: the state is Idle after it, startPCMRecorder is not
\* reached and nothing else changes (no block, chunk or call is added); and a
\* failed start never has a processor attached, a sample queued, a chunk
\* extracted or a call dispatched.
C23_FailedStartProcessesNothing ==
    [][/\ (lastOp'.op = "acquired" /\ lastOp'.outcome # "ok") =>
              /\ ~isTranscribing'
              /\ lastOp'.p \in FailedStarts'
              /\ isTranscribing =>
                     /\ audioProcessor' = NULL
                     /\ attached' \subseteq attached \ {audioProcessor}
                     /\ sampleBuffers' = <<>>
                     /\ samplesCollected' = 0
              /\ UNCHANGED <<closures, chunkLog, insertLog, nextBlock, nextCall, doc>>
       /\ \A s \in FailedStarts' :
              /\ s \notin attached'
              /\ \A c \in calls' : c.p # s
              /\ \A k \in 1..Len(chunkLog') : chunkLog'[k].by # s
              /\ \A i \in 1..Len(sampleBuffers') :
                     \A j \in 1..Len(sampleBuffers'[i]) : sampleBuffers'[i][j].p # s]_vars

\* the stream acquired for the only start had no audio track: the state is
\* Idle again and nothing was captured
C23_Witness ==
    /\ lastOp.op = "acquired"
    /\ lastOp.outcome = "noTracks"
    /\ FailedStarts = {1}
    /\ ~isTranscribing
    /\ attached = {}
    /\ sampleBuffers = <<>>
    /\ chunkLog = <<>>
    /\ nextCall = 1

RECURSIVE SumTo(_, _)
SumTo(f, n) == IF n = 0 THEN 0 ELSE SumTo(f, n - 1) + f[n]

\* the mean of the squares of the samples is below the square of t, that is
\* their RMS is below t (t not negative)
RmsBelow(samples, t) ==
    SumTo([i \in 1..Len(samples) |-> samples[i].v * samples[i].v], Len(samples))
        < t * t * Len(samples)

\* every sample is below t in absolute value
PeakBelow(samples, t) ==
    \A i \in 1..Len(samples) : samples[i].v < t /\ -samples[i].v < t

\* C25: isMostlySilence is true of an empty block, and of a block that is not
\* empty exactly when the RMS of its samples is strictly below the threshold
\* and its largest absolute sample is strictly below 4 times the threshold.
C25_SilenceIsRmsAndPeakBelow ==
    lastOp.op = "silence" =>
        /\ silenceRmsThreshold >= 0
        /\ lastOp.result \in BOOLEAN
        /\ lastOp.samples = <<>> => lastOp.result
        /\ lastOp.samples # <<>> =>
               (lastOp.result <=> /\ RmsBelow(lastOp.samples, silenceRmsThreshold)
                                  /\ PeakBelow(lastOp.samples, 4 * silenceRmsThreshold))

\* a block whose RMS is below the threshold and whose peak is 4 times the
\* threshold is not silence
C25_Witness ==
    /\ lastOp.op = "silence"
    /\ silenceRmsThreshold > 0
    /\ lastOp.samples # <<>>
    /\ RmsBelow(lastOp.samples, silenceRmsThreshold)
    /\ \E i \in 1..Len(lastOp.samples) : lastOp.samples[i].v = 4 * silenceRmsThreshold
    /\ ~lastOp.result

\* C26, as the specification states it: for every threshold above 0 and below
\* 1, isMostlySilence is false of a period of a full-scale sine and true of a
\* block of zeros.
C26_SineIsNeverSilence ==
    (lastOp.op = "silence" /\ silenceRmsThreshold > 0 /\ silenceRmsThreshold < AmpUnit) =>
        /\ lastOp.samples = SineBlock => ~lastOp.result
        /\ lastOp.samples = ZeroBlock => lastOp.result

\* C26, amended: isMostlySilence is true of a block of zeros for every
\* threshold above 0; of a period of a full-scale sine, whose RMS is the square
\* root of 1/2, it is false for every threshold above 0 whose square is at most
\* 1/2, and true for the thresholds above that and below 1.
C26_SineIsSilenceAboveItsRms ==
    (lastOp.op = "silence" /\ silenceRmsThreshold > 0 /\ silenceRmsThreshold < AmpUnit) =>
        /\ lastOp.samples = SineBlock =>
               (lastOp.result <=>
                    2 * silenceRmsThreshold * silenceRmsThreshold > AmpUnit * AmpUnit)
        /\ lastOp.samples = ZeroBlock => lastOp.result

\* with a threshold of 0.25 or less the sine fails the test of the peak and of
\* the RMS; here it passes that of the peak and fails that of the RMS alone
C26_Witness ==
    /\ lastOp.op = "silence"
    /\ lastOp.samples = SineBlock
    /\ silenceRmsThreshold < AmpUnit
    /\ PeakBelow(lastOp.samples, 4 * silenceRmsThreshold)
    /\ ~RmsBelow(lastOp.samples, silenceRmsThreshold)
    /\ ~lastOp.result

\* the unsigned number of k bytes, low byte first, at offset off of bytes
RECURSIVE UnsignedAt(_, _, _)
UnsignedAt(bytes, off, k) ==
    IF k = 0 THEN 0 ELSE bytes[off + 1] + 256 * UnsignedAt(bytes, off + 1, k - 1)

\* the signed 16-bit number at offset off of bytes
SignedAt(bytes, off) ==
    LET u == UnsignedAt(bytes, off, 2) IN IF u >= 32768 THEN u - 65536 ELSE u

\* C27: for n samples at rate r encodeWav gives 44 + 2n bytes; its header has
\* the tags RIFF, WAVE, fmt and data, RIFF size 36 + 2n, fmt size 16, format 1,
\* 1 channel, sample rate r, byte rate 2r, block align 2, 16 bits per sample
\* and data size 2n: the sample count read back from the header (data size by
\* block align) is n and the sample rate read back is r.
C27_WavHeaderRoundTrips ==
    lastOp.op = "wav" =>
        LET b == lastOp.bytes
            n == Len(lastOp.samples)
            r == lastOp.sampleRate
        IN  /\ Len(b) = 44 + 2 * n
            /\ \A i \in 1..Len(b) : b[i] \in 0..255
            /\ SubSeq(b, 1, 4) = Tag_RIFF
            /\ UnsignedAt(b, 4, 4) = 36 + 2 * n
            /\ SubSeq(b, 9, 12) = Tag_WAVE
            /\ SubSeq(b, 13, 16) = Tag_fmt
            /\ UnsignedAt(b, 16, 4) = 16
            /\ UnsignedAt(b, 20, 2) = 1
            /\ UnsignedAt(b, 22, 2) = 1
            /\ UnsignedAt(b, 24, 4) = r
            /\ UnsignedAt(b, 28, 4) = 2 * r
            /\ UnsignedAt(b, 32, 2) = 2
            /\ UnsignedAt(b, 34, 2) = 16
            /\ SubSeq(b, 37, 40) = Tag_data
            /\ UnsignedAt(b, 40, 4) = 2 * n
            /\ UnsignedAt(b, 40, 4) \div UnsignedAt(b, 32, 2) = n
            /\ Len(b) - 44 = UnsignedAt(b, 40, 4)

\* two samples have been encoded at 48000 Hz, a rate of more than two bytes
C27_Witness ==
    /\ lastOp.op = "wav"
    /\ Len(lastOp.samples) = 2
    /\ lastOp.sampleRate = 48000
    /\ Len(lastOp.bytes) = 48
    /\ SubSeq(lastOp.bytes, 25, 28) = <<128, 187, 0, 0>>
    /\ SubSeq(lastOp.bytes, 41, 44) = <<4, 0, 0, 0>>

\* round(n / d) for d > 0 and n of either sign, halves rounded up
RoundDiv(n, d) == (2 * n + d) \div (2 * d)

\* C28: every sample s is encoded as the 16-bit number round(clamp(s, -1, 1) *
\* 32768) when s < 0 and round(clamp(s, -1, 1) * 32767) otherwise, also when s
\* is outside -1 .. 1 or the product is not an integer.
C28_SamplesAreRounded ==
    lastOp.op = "wav" =>
        \A i \in 1..Len(lastOp.samples) :
            LET s == lastOp.samples[i]
                c == IF s.v < -AmpUnit THEN -AmpUnit ELSE IF s.v > AmpUnit THEN AmpUnit ELSE s.v
            IN  ~s.nan =>
                    SignedAt(lastOp.bytes, 44 + 2 * (i - 1)) =
                        IF s.v < 0 THEN RoundDiv(c * 32768, AmpUnit)
                        ELSE RoundDiv(c * 32767, AmpUnit)

\* C29: a NaN sample is encoded as the 16-bit number 0, both of its bytes being
\* 0; with it encodeWav still gives 44 + 2n bytes, and the samples beside it
\* are encoded as they are without it.
C29_NaNEncodesAsZero ==
    lastOp.op = "wav" =>
        /\ Len(lastOp.bytes) = 44 + 2 * Len(lastOp.samples)
        /\ \A i \in 1..Len(lastOp.bytes) : lastOp.bytes[i] \in 0..255
        /\ \A i \in 1..Len(lastOp.samples) :
               IF lastOp.samples[i].nan
               THEN /\ SignedAt(lastOp.bytes, 44 + 2 * (i - 1)) = 0
                    /\ SubSeq(lastOp.bytes, 44 + 2 * i - 1, 44 + 2 * i) = <<0, 0>>
               ELSE SubSeq(lastOp.bytes, 44 + 2 * i - 1, 44 + 2 * i) =
                        SubSeq(encodeWav(<<lastOp.samples[i]>>, lastOp.sampleRate), 45, 46)

\* a NaN sample and a full-scale sample have been encoded together: 0 and 32767
C29_Witness ==
    /\ lastOp.op = "wav"
    /\ Len(lastOp.samples) = 2
    /\ lastOp.samples[1].nan
    /\ lastOp.samples[2] = Sample(AmpUnit)
    /\ SubSeq(lastOp.bytes, 45, 48) = <<0, 0, 255, 127>>

\* C30: whenever the stored repeat bound is a number below 1 and
\* applyTuningSettings has run on it, the bound dedupeConsecutiveWords uses is
\* 1: of "go go go go" it keeps one "go".
C30_RepeatBoundBelowOneIsOne ==
    (/\ saving = 0
     /\ settings.maxConsecutiveWordRepeats.finite
     /\ settings.maxConsecutiveWordRepeats.val < Milli) =>
        /\ maxConsecutiveWordRepeats = 1
        /\ dedupeConsecutiveWords(Str_go_x4, maxConsecutiveWordRepeats) = <<"g", "o">>

\* a text that is not empty, ends with a character that is not whitespace, has
\* no two whitespace characters in a row, and starts with a character that is
\* not whitespace or with one space
WellFormed(t) ==
    /\ t # <<>>
    /\ \E i \in 1..Len(t) : ~IsWs(t[i])
    /\ ~IsWs(t[Len(t)])
    /\ \A i \in 1..(Len(t) - 1) : ~(IsWs(t[i]) /\ IsWs(t[i + 1]))
    /\ IsWs(t[1]) => (t[1] = " " /\ Len(t) > 1 /\ ~IsWs(t[2]))

\* C31: every text inserted into the document is well formed: it is not empty,
\* has a character that is not whitespace, no whitespace at its end, no run
\* of two or more whitespace characters, and starts with a character that is
\* not whitespace or with exactly one space, the one prepended.
C31_InsertedTextIsWellFormed ==
    \A i \in 1..Len(insertLog) : WellFormed(insertLog[i].text)

\* a transcript with a run of whitespace inside and whitespace at its end has
\* been inserted after a character that is not whitespace
C31_Witness ==
    /\ lastOp.op = "transcript"
    /\ lastOp.transcript = <<"a", " ", " ", "b", "\t">>
    /\ insertLog # <<>>
    /\ insertLog[Len(insertLog)].text = <<" ", "a", " ", "b">>
    /\ insertLog[Len(insertLog)].offset > 0

\* C32: trimBacklog changes nothing when the count is at most samplesPerChunk
\* * maxBufferedChunks samples (maxSamples); otherwise it removes the count
\* less maxSamples oldest samples and leaves the newest maxSamples samples in
\* their order, the count being maxSamples: the blocks it leaves are the last
\* blocks of the queue, the first of them without its oldest samples when the
\* cut falls inside it.
C32_TrimKeepsNewestMaxSamples ==
    [][lastOp'.op = "trim" =>
          LET all  == Concat(sampleBuffers)
              max  == lastOp'.maxSamples
              over == samplesCollected - max
          IN  /\ max >= 1
              /\ samplesCollected <= max => UNCHANGED <<sampleBuffers, samplesCollected>>
              /\ samplesCollected > max =>
                     /\ Concat(sampleBuffers') = SubSeq(all, over + 1, Len(all))
                     /\ Len(Concat(sampleBuffers')) = max
                     /\ samplesCollected' = max
                     /\ \E j \in 1..Len(sampleBuffers) :
                            \/ sampleBuffers' = SubSeq(sampleBuffers, j, Len(sampleBuffers))
                            \/ \E cut \in 1..(Len(sampleBuffers[j]) - 1) :
                                   sampleBuffers' =
                                       <<SubSeq(sampleBuffers[j], cut + 1, Len(sampleBuffers[j]))>>
                                       \o SubSeq(sampleBuffers, j + 1, Len(sampleBuffers))]_vars

\* of three blocks of two samples a trim to three samples has removed the
\* first block and the older sample of the second
C32_Witness ==
    /\ lastOp.op = "trim"
    /\ lastOp.maxSamples = 3
    /\ nextBlock = 4
    /\ Len(sampleBuffers) = 2
    /\ Len(sampleBuffers[1]) = 1
    /\ sampleBuffers[1][1].id = 4
    /\ Len(sampleBuffers[2]) = 2
    /\ samplesCollected = 3

\* C33: in every state a processor is attached, or is the current one, only
\* while isTranscribing is true.
C33_AttachedOnlyWhileTranscribing ==
    (attached # {} \/ audioProcessor # NULL) => isTranscribing

\* C34: the samples of the chunks extracted so far, followed by the samples
\* queued, are samples that were pushed, each at most once and in the order of
\* their push: no sample is in two chunks or in a chunk and in the queue, and no
\* chunk holds a sample that was not pushed (a zero of the padding); every
\* chunk has samplesPerChunk samples. The pushed samples that are not among
\* them are those a trim discarded or a stop cleared.
C34_SamplesAreConserved ==
    LET seq == TakenSamples(chunkLog) \o Concat(sampleBuffers)
    IN  /\ \A i \in 1..Len(seq) : seq[i].id \in 1..((nextBlock - 1) * BlockLen)
        /\ \A i \in 1..(Len(seq) - 1) : seq[i].id < seq[i + 1].id
        /\ \A k \in 1..Len(chunkLog) :
               Len(chunkLog[k].samples) = closures[chunkLog[k].by].samplesPerChunk
        /\ \A i \in 1..Len(trimLog.after) :
               trimLog.after[i].id \in 1..((nextBlock - 1) * BlockLen)

\* of the four samples pushed one was discarded by a trim, one is in a chunk
\* and one is queued
C34_Witness ==
    /\ nextBlock = 3
    /\ Len(trimLog.after) < Len(trimLog.before)
    /\ Len(chunkLog) >= 1
    /\ sampleBuffers # <<>>
    /\ isTranscribing
    /\ Len(TakenSamples(chunkLog)) + samplesCollected < 2 * BlockLen

\* C35: requests are issued in the order of extraction of their chunks. The
\* identity of a call is its rank among the requests issued. In every step a
\* call that is new is the call of a chunk extracted in that step, which is not
\* silent, and among the new calls the later request is the one of the later
\* chunk; every chunk extracted in the step that is not silent and is not
\* refused for an empty endpoint has its request issued in that step, before
\* any later chunk is extracted; and no call changes its chunk afterwards.
C35_RequestsFollowChunkOrder ==
    [][ /\ \A c \in calls' : c.id >= nextCall =>
               /\ c.chunk \in (Len(chunkLog) + 1)..Len(chunkLog')
               /\ ~chunkLog'[c.chunk].silent
               /\ \A d \in calls' : d.id > c.id => d.chunk > c.chunk
        /\ \A k \in (Len(chunkLog) + 1)..Len(chunkLog') :
               (~chunkLog'[k].silent /\ settings.endpointUrl # "") =>
                   \E c \in calls' : c.chunk = k /\ c.id >= nextCall
        /\ \A c \in calls' : c.id < nextCall =>
               \E d \in calls : d.id = c.id /\ d.chunk = c.chunk
        /\ Len(chunkLog) <= Len(chunkLog')
      ]_vars

\* two requests are outstanding, issued by two callbacks that interleave: the
\* second callback ran while the first awaited its call
C35_Witness ==
    /\ lastOp.op = "audio"
    /\ samplesCollected > 0
    /\ \E c, d \in calls :
           /\ c.id < d.id
           /\ c.chunk < d.chunk
           /\ c.phase = "fetch" /\ d.phase = "fetch"

\* C36: the loop of a callback ends after a stop or a failure without
\* dispatching another chunk. A callback awaits the call c it dispatched; its
\* session has been stopped when its processor is no longer attached. In every
\* step that resumes such a callback, and in every step that runs the catch of
\* a failed call, no request is issued; and every iteration of the loop takes
\* samplesPerChunk >= 1 samples.
C36_LoopExitsAfterStopOrFailure ==
    [][ /\ \A c \in calls :
               ((\A d \in calls' : d.id # c.id) /\ c.p \notin attached) =>
                   nextCall' = nextCall
        /\ lastOp'.op = "failed" => nextCall' = nextCall
        /\ \A p \in DOMAIN closures : closures[p].samplesPerChunk >= 1
      ]_vars

\* C37: dedupeConsecutiveWords is idempotent for every repeat bound m >= 1:
\* applied with the same bound to the text it returned, it returns that text.
C37_DedupeIsIdempotent ==
    lastOp.op = "dedupe" =>
        /\ maxConsecutiveWordRepeats >= 1
        /\ dedupeConsecutiveWords(lastOp.result, maxConsecutiveWordRepeats) = lastOp.result

\* a text that lost two of its four words to the bound 2, and whose result has
\* still a repeated word
C37_Witness ==
    /\ lastOp.op = "dedupe"
    /\ maxConsecutiveWordRepeats = 2
    /\ lastOp.text = Str_go_x4
    /\ lastOp.result = Str_go_x2
    /\ dedupeConsecutiveWords(lastOp.result, 2) = Str_go_x2

\* C38: after applyTuningSettings, whatever the stored settings, the effective
\* maxBufferedChunks is an integer >= 1, the effective maxConsecutiveWordRepeats
\* is an integer >= 1 and the effective silence threshold is >= 0, so the
\* backlog bound of trimBacklog is at least one chunk.
C38_TunedValuesAreInRange ==
    /\ maxBufferedChunks \in Nat /\ maxBufferedChunks >= 1
    /\ maxConsecutiveWordRepeats \in Nat /\ maxConsecutiveWordRepeats >= 1
    /\ silenceRmsThreshold >= 0
    /\ SamplesPerChunk(settings.chunkMs) * maxBufferedChunks >= SamplesPerChunk(settings.chunkMs)

\* C39: takeSamples(n) called when fewer than n samples are queued fails with
\* InsufficientData: it returns no chunk and leaves the queue and the running
\* count as they were.
C39_ShortTakeFailsAndLeavesQueue ==
    [][ (lastOp'.op = "take" /\ lastOp'.count > samplesCollected) =>
            /\ sampleBuffers' = sampleBuffers
            /\ samplesCollected' = samplesCollected
            /\ chunkLog' = chunkLog
      ]_vars

====
